---- MODULE Spec2Model ----
(***************************************************************************)
(* Model of the rustplay audio engine (src/src/player.rs): the Player      *)
(* state machine, the engine thread's loop (run_audio_loop), the audio     *)
(* callback that drains the ring buffer and advances the shared clock, and *)
(* the senders of the command channel (Spec, FairSpec); of the UI's play   *)
(* list and its handling of track ends (src/src/rustplay.rs, UiSpec); of   *)
(* the contents of the ring and of the callback's output (CbSpec); of a    *)
(* codec at another output rate (RateSpec) and of bursts of commands       *)
(* (QueueSpec); of the song index and its worker thread                    *)
(* (src/src/rustplay/indexer.rs, IxSpec, WarmSpec); of the remote control  *)
(* surface and its listener thread (src/src/media_keys.rs, MkSpec, LsSpec, *)
(* LsFairSpec); of one fast-forward request during playback (FfSpec); of   *)
(* the UI's error banner (BnSpec) and of the engine's reports of a track's *)
(* end (EndSpec); and of the shared queue of src/src/fifo.rs (FqSpec).     *)
(*                                                                         *)
(* Modelling decisions:                                                    *)
(*  - the ring buffer is modelled by its fill level (number of floats);    *)
(*  - the codec (musix::ChipPlayer) is an external crate: it is modelled   *)
(*    by the fixtures of SongFile and by load_song / seek / get_samples;   *)
(*  - the info channel is unbounded and its receiver outlives the engine,  *)
(*    so a send never fails; `out` holds what the last step published.     *)
(***************************************************************************)
EXTENDS Integers, Sequences, FiniteSets

\* ------------------------------------------------------------------ bounds
\* Number of commands the senders put on the command channel in one run.
MaxCmds == 3

\* ------------------------------------------------------- program constants
RING_BUFFER_SIZE == 8192
BUFFER_SIZE == 2048
PLAYBACK_FREQ_HZ == 44100

\* ------------------------------------------------------------------ inputs
\* Files the senders ask the engine to load.
Paths == {"music.mod", "game.sid", "song.mp3", "missing.mod"}
\* Digits the UI turns into set_song(n) (key 0 is sent as 10).
SongKeys == {1, 2, 10}
\* Arguments of ff(msec).
FfArgs == {30}

PlayStates == {"Stopped", "Playing", "Paused", "Quitting"}

\* ------------------------------------------------------------------- codec
\* What the codec finds in each file: the number of sub-songs, the start
\* song, the length of every sub-song in samples (the last buffer of a track
\* is a partial one), the codec's output rate and the song's title.
SongFile(path) ==
    IF path = "game.sid"
    THEN [songs |-> 2, startSong |-> 0, len |-> BUFFER_SIZE, hz |-> 22050,
          title |-> <<"G">>]
    ELSE [songs |-> 1, startSong |-> 0, len |-> BUFFER_SIZE + BUFFER_SIZE \div 2,
          hz |-> PLAYBACK_FREQ_HZ,
          title |-> IF path = "song.mp3" THEN <<"S">> ELSE <<"M">>]

\* Path::extension
Extension(path) ==
    CASE path = "song.mp3" -> "mp3" [] path = "game.sid" -> "sid" [] OTHER -> "mod"

\* What mp3_duration::from_path and id3 Tag::read_from_path find in a file:
\* the duration in seconds and the tags as strings of characters, the empty
\* one where there is none.
Mp3Probe(path) ==
    [duration_ok |-> TRUE, secs |-> 180, tag_ok |-> TRUE, album |-> <<>>,
     artist |-> <<"a">>, title |-> <<"t">>]

\* Decimal strings, as sequences of characters.
DigitVal == [c \in {"0", "1", "2", "3", "4", "5", "6", "7", "8", "9"} |->
               CASE c = "0" -> 0 [] c = "1" -> 1 [] c = "2" -> 2 [] c = "3" -> 3
                 [] c = "4" -> 4 [] c = "5" -> 5 [] c = "6" -> 6 [] c = "7" -> 7
                 [] c = "8" -> 8 [] c = "9" -> 9]

DigitChar == <<"0", "1", "2", "3", "4", "5", "6", "7", "8", "9">>

RECURSIVE DecString(_)
DecString(n) ==
    IF n < 10 THEN <<DigitChar[n + 1]>>
    ELSE DecString(n \div 10) \o <<DigitChar[(n % 10) + 1]>>

NoChip == [path |-> "", songs |-> 0, left |-> 0, hz |-> 0, meta |-> <<>>]

Meta(key, val) == [key |-> key, val |-> val]

\* musix::load_song: fails on a file it cannot open, else a codec positioned
\* at the start song whose changed metadata is pending.
CanLoad(path) == path # "missing.mod"

load_song(path) ==
    LET f == SongFile(path) IN
    [path |-> path, songs |-> f.songs, left |-> f.len, hz |-> f.hz,
     meta |-> (IF f.songs > 1
               THEN <<Meta("songs", DecString(f.songs)),
                      Meta("startSong", DecString(f.startSong))>>
               ELSE <<>>) \o <<Meta("title", f.title)>>]

\* ChipPlayer::seek(song, 0): restarts the codec on a sub-song it has and
\* marks "song" as changed metadata; a sub-song it does not have is ignored.
NotSong(m) == m.key # "song"

seek(cp, song) ==
    IF 0 <= song /\ song < cp.songs
    THEN [cp EXCEPT !.left = SongFile(cp.path).len,
                    !.meta = Append(SelectSeq(@, NotSong),
                                    Meta("song", DecString(song)))]
    ELSE cp

\* ChipPlayer::get_samples(target): the number of samples written.
Min(a, b) == IF a < b THEN a ELSE b

get_samples(cp, len) == Min(cp.left, len)

\* str::parse::<i32>: an optional sign followed by at least one digit.
RECURSIVE ParseDigits(_, _)
ParseDigits(s, acc) ==
    IF s = <<>> THEN [ok |-> TRUE, v |-> acc]
    ELSE IF Head(s) \in DOMAIN DigitVal
         THEN ParseDigits(Tail(s), acc * 10 + DigitVal[Head(s)])
         ELSE [ok |-> FALSE, v |-> 0]

ParseI32(s) ==
    IF s = <<>> THEN [ok |-> FALSE, v |-> 0]
    ELSE IF Head(s) \in {"+", "-"}
         THEN IF Tail(s) = <<>> THEN [ok |-> FALSE, v |-> 0]
              ELSE LET r == ParseDigits(Tail(s), 0) IN
                   [ok |-> r.ok, v |-> IF Head(s) = "-" THEN 0 - r.v ELSE r.v]
         ELSE ParseDigits(s, 0)

\* ------------------------------------------------------------------ Player
\* struct Player without its clock handle: the clock is the variable msec.
\* chip_player = NoChip and new_song = "" stand for None.
DefaultPlayer ==
    [chip_player |-> NoChip, song |-> 0, songs |-> 0, play_state |-> "Stopped",
     ff_msec |-> 0, new_song |-> ""]

\* A command's outcome: the player it leaves, its PlayResult ("" for Ok, the
\* error message for Err) and whether it called Player::reset.
Outcome(p, err, reset) == [player |-> p, err |-> err, reset |-> reset]

\* next_song that seeks without resetting the clock.
next_song_NoReset(p) ==
    IF p.chip_player = NoChip THEN Outcome(p, "No active song", FALSE)
    ELSE IF p.song < p.songs - 1
         THEN Outcome([p EXCEPT !.chip_player = seek(@, p.song + 1)], "", FALSE)
         ELSE Outcome(p, "", FALSE)

next_song(p) ==
    IF p.chip_player = NoChip THEN Outcome(p, "No active song", FALSE)
    ELSE IF p.song < p.songs - 1
         THEN Outcome([p EXCEPT !.chip_player = seek(@, p.song + 1)], "", TRUE)
         ELSE Outcome(p, "", FALSE)

prev_song(p) ==
    IF p.song > 0 /\ p.chip_player # NoChip
    THEN Outcome([p EXCEPT !.chip_player = seek(@, p.song - 1)], "", TRUE)
    ELSE Outcome(p, "", FALSE)

set_song(p, song) ==
    IF p.chip_player # NoChip
    THEN Outcome([p EXCEPT !.song = song, !.chip_player = seek(@, song - 1)],
                 "", TRUE)
    ELSE Outcome(p, "", FALSE)

\* load that forgets to mark the new song and to start playing.
load_Unmarked(p, name) ==
    IF CanLoad(name)
    THEN Outcome([p EXCEPT !.chip_player = load_song(name)], "", TRUE)
    ELSE Outcome([p EXCEPT !.chip_player = NoChip], "Could not load song", FALSE)

load(p, name) ==
    IF CanLoad(name)
    THEN Outcome([p EXCEPT !.chip_player = load_song(name), !.new_song = name,
                           !.play_state = "Playing"], "", TRUE)
    ELSE Outcome([p EXCEPT !.chip_player = NoChip], "Could not load song", FALSE)

\* ff that also resumes a paused player.
ff_Resumes(p, msec) ==
    Outcome([p EXCEPT !.ff_msec = @ + msec,
                      !.play_state = IF @ = "Paused" THEN "Playing" ELSE @],
            "", FALSE)

ff(p, msec) == Outcome([p EXCEPT !.ff_msec = @ + msec], "", FALSE)

play_pause(p) ==
    Outcome([p EXCEPT !.play_state = CASE @ = "Paused" -> "Playing"
                                       [] @ = "Playing" -> "Paused"
                                       [] OTHER -> @], "", FALSE)

quit(p) == Outcome([p EXCEPT !.play_state = "Quitting"], "", FALSE)

\* ---------------------------------------------------------------- commands
\* A Cmd closure, by the Player method it calls and that call's argument.
Cmd(op, path, n) == [op |-> op, path |-> path, n |-> n]

Cmds ==
    {Cmd(op, "", 0) : op \in {"quit", "next_song", "prev_song", "play_pause"}}
      \cup {Cmd("load", path, 0) : path \in Paths}
      \cup {Cmd("set_song", "", n) : n \in SongKeys}
      \cup {Cmd("ff", "", m) : m \in FfArgs}

\* cmd_fn(&mut player)
Run(c, p) ==
    CASE c.op = "quit" -> quit(p)
      [] c.op = "next_song" -> next_song(p)
      [] c.op = "prev_song" -> prev_song(p)
      [] c.op = "play_pause" -> play_pause(p)
      [] c.op = "load" -> load(p, c.path)
      [] c.op = "set_song" -> set_song(p, c.n)
      [] c.op = "ff" -> ff(p, c.n)

\* str::parse::<f64> on the decimal notations the codec uses: digits with an
\* optional fraction. The number is kept as its integer part and fraction.
ParseF64(s) ==
    LET dot == {i \in 1..Len(s) : s[i] = "."}
        cut == IF dot = {} THEN Len(s) + 1 ELSE CHOOSE i \in dot : \A j \in dot : i <= j
        int == ParseDigits(SubSeq(s, 1, cut - 1), 0)
        frac == ParseDigits(SubSeq(s, cut + 1, Len(s)), 0)
    IN  IF Len(s) - Cardinality(dot \cap {cut}) = 0
        THEN [ok |-> FALSE, v |-> 0]
        ELSE [ok |-> int.ok /\ frac.ok, v |-> int.v]

\* ------------------------------------------------------------- info events
\* enum Value (src/src/value.rs); the bytes of a Data value are left out.
Number(n) == [tag |-> "Number", n |-> n]
Text(s) == [tag |-> "Text", s |-> s]
Error(msg) == [tag |-> "Error", msg |-> msg]
Data == [tag |-> "Data"]

\* Info = (String, Value)
Ev(key, val) == [key |-> key, val |-> val]

\* The number a PlayState is published as.
StateCode(st) ==
    CASE st = "Stopped" -> 0 [] st = "Playing" -> 1 [] st = "Paused" -> 2
      [] st = "Quitting" -> 3

\* ------------------------------------------------------------------- state
VARIABLES
    player,      \* the engine's Player
    msec,        \* the shared millisecond clock (Arc<AtomicUsize>)
    ring,        \* number of floats in the ring buffer
    plugin_freq, \* the codec rate the resampler is configured for
    last_state,  \* the play state last reported
    pc,          \* the engine thread's position in run_audio_loop
    cmdq,        \* commands sent and not yet received by the engine
    nSent,       \* number of commands sent so far
    out,         \* info events published by the last step
    rc,          \* samples returned by get_samples in the last step, -1: no call
    err,         \* Err message of the command run in the last step, "": none
    quitCtx,     \* "none": no quit sent; "idle": one quit, the last command sent,
                 \* to a stopped engine with no song and no command pending;
                 \* "busy": a quit sent otherwise
    afterQuit,   \* key of the first info event published after that send
    quitRan,     \* the engine has run a quit command
    doneEv,      \* "done" events published since the last reset (up to 2)
    fresh        \* no get_samples call since the last reset of the clock

\* The UI's play list and its end of the info channel (struct RustPlay).
VARIABLES
    current_list, \* number of songs of the play list, 0: no play list (None)
    current_song, \* index into the play list
    state_done,   \* State::done: a "done" event was drained and not yet acted on
    info,         \* keys of the info events sent and not yet received by the UI
    sent          \* play list indices the last step of the UI sent a load for

uiVars == <<current_list, current_song, state_done, info, sent>>

\* The ring buffer's contents and the output buffer of the audio callback.
VARIABLES
    faucet,      \* the samples in the ring, oldest first
    data,        \* the output buffer as the last callback left it
    nPopped      \* number of samples the last step's callback popped, -1: the
                 \* last step was not a callback

cbVars == <<faucet, data, nPopped>>

\* The state of the engine thread, its channels and the clock.
engineVars == <<player, msec, ring, plugin_freq, last_state, pc, cmdq, nSent, out,
                rc, err, quitCtx, afterQuit, quitRan, doneEv, fresh>>

\* The song index and its worker thread (struct RemoteIndexer).
VARIABLES
    indexer,     \* the Indexer behind the mutex
    rx,          \* AddPath commands sent and not yet received by the worker
    walk,        \* entries of the current walk the worker has not visited yet
    ipc,         \* the worker's position: "recv", "walk", or "dead"
    ret,         \* the UI's last call on the indexer and what it returned
    seen,        \* for every query, the paths searches for it have returned
    nAdds,       \* AddPath commands the UI has sent
    cur,         \* the root of the walk the worker is in
    walked       \* the roots whose walk the worker has finished

ixVars == <<indexer, rx, walk, ipc, ret, seen, nAdds, cur, walked>>

\* The remote control surface (media_keys.rs).
VARIABLES
    event_channel,  \* MediaKeyEvents sent and not yet received
    receiver,       \* TRUE while the event channel's receiver exists
    method_ret,     \* the remote method invoked last and what it returned
    invoked,        \* the remote methods invoked while the receiver existed
    received        \* the events the receiver's owner has taken, in order

mkVars == <<event_channel, receiver, method_ret, invoked, received>>

\* The UI's error banner (struct State and the frame that draws it).
VARIABLES
    errors,      \* State::errors: the errors waiting, by arrival number
    show_error,  \* State::show_error: frames the front error is still shown
    mode,        \* State::mode
    shown,       \* the error the last frame printed, 0 for none
    tick,        \* the parity of the number of frames drawn
    nErr         \* errors that have arrived

bnVars == <<errors, show_error, mode, shown, tick, nErr>>

\* State at start: no error, the main screen.
BnInit ==
    /\ errors = <<>>
    /\ show_error = 0
    /\ mode = "Main"
    /\ shown = 0
    /\ tick = FALSE
    /\ nErr = 0

\* The end of a track as the UI and the engine see it.
VARIABLES
    ended,       \* TRUE while the engine's song gives no more samples
    loads,       \* load commands of the UI the engine has not run yet
    nEnds,       \* tracks that have run out
    nNext        \* calls of next() that update_meta has made

teVars == <<ended, loads, nEnds, nNext>>

\* A song is playing; nothing has ended.
TeInit ==
    /\ ended = FALSE
    /\ loads = 0
    /\ nEnds = 0
    /\ nNext = 0

\* A Fifo shared by its clones (fifo.rs).
VARIABLES
    deque,       \* the VecDeque behind the mutex
    ppc,         \* where each producer is in push_back
    pval,        \* the value each producer is pushing
    nVals,       \* push_back calls made
    pushed,      \* the values pushed, in the order the pushes happened
    taken,       \* the values pop_front has returned, in order
    pop_ret      \* what the last pop_front returned: <<v>>, or <<>> for None

fqVars == <<deque, ppc, pval, nVals, pushed, taken, pop_ret>>

\* The threads that hold a clone and push.
Producers == {"p1", "p2"}

\* Fifo::new, cloned once for every producer.
FqInit ==
    /\ deque = <<>>
    /\ ppc = [p \in Producers |-> "idle"]
    /\ pval = [p \in Producers |-> 0]
    /\ nVals = 0
    /\ pushed = <<>>
    /\ taken = <<>>
    /\ pop_ret = <<>>

\* The state outside the engine thread's loop.
\* The listener thread of the remote surface (media_keys.rs, setup_mpris).
VARIABLES
    shutdown_channel,  \* the control channel: events sent and not yet received
    is_playing,        \* PlayState::is_playing
    listener,          \* where the listener is: "loop", "release" or "stopped"
    name_owned,        \* the bus name is held by the connection
    ctl_sent,          \* the events sent on the control channel, in order
    applied            \* the notifications the listener has applied, in order

lsVars == <<shutdown_channel, is_playing, listener, name_owned, ctl_sent, applied>>

\* setup_mpris has requested the name and registered the interfaces; the
\* listener is about to enter its loop.  PlayState::default().
LsInit ==
    /\ shutdown_channel = <<>>
    /\ is_playing = FALSE
    /\ listener = "loop"
    /\ name_owned = TRUE
    /\ ctl_sent = <<>>
    /\ applied = <<>>

outside == <<uiVars, cbVars, ixVars, mkVars, bnVars, teVars, fqVars, lsVars>>

\* start_with_name: an empty event channel whose receiver the caller holds.
MkInit ==
    /\ event_channel = <<>>
    /\ receiver = TRUE
    /\ method_ret = [method |-> "none", ok |-> TRUE]
    /\ invoked = <<>>
    /\ received = <<>>

\* Indexer::new: an empty index, no search result, an empty warm list.
NewIndexer ==
    [docs |-> <<>>, committed |-> 0, result |-> <<>>, song_list |-> <<>>,
     count |-> 0]

\* Queries the UI searches for.
Queries == {<<"purple", "motion">>, <<"hubbard">>, <<"song">>}

\* RemoteIndexer::new: the worker waits for its first command.
IxInit ==
    /\ indexer = NewIndexer
    /\ rx = <<>>
    /\ walk = <<>>
    /\ ipc = "recv"
    /\ ret = [call |-> "none", ok |-> TRUE, arg |-> <<>>, val |-> <<>>]
    /\ seen = [q \in Queries |-> {}]
    /\ nAdds = 0
    /\ cur = ""
    /\ walked = {}

vars == <<engineVars, outside>>

Init ==
    /\ player = DefaultPlayer
    /\ msec = 0
    /\ ring = 0
    /\ plugin_freq = PLAYBACK_FREQ_HZ
    /\ last_state = DefaultPlayer.play_state
    /\ pc = "while"
    /\ cmdq = <<>>
    /\ nSent = 0
    /\ out = <<>>
    /\ rc = -1
    /\ err = ""
    /\ quitCtx = "none"
    /\ afterQuit = ""
    /\ quitRan = FALSE
    /\ doneEv = 0
    /\ fresh = FALSE
    /\ current_list = 0
    /\ current_song = 0
    /\ state_done = FALSE
    /\ info = <<>>
    /\ sent = <<>>
    /\ faucet = <<>>
    /\ data = <<>>
    /\ nPopped = -1
    /\ IxInit
    /\ MkInit
    /\ BnInit
    /\ TeInit
    /\ FqInit
    /\ LsInit

\* info_producer.push_value for every event of evs, in order.
Publish(evs) ==
    /\ out' = evs
    /\ afterQuit' = IF quitCtx # "none" /\ afterQuit = "" /\ evs # <<>>
                    THEN evs[1].key ELSE afterQuit

\* A run_player that reports the end of the loop after the error.
Fatal_AndQuit(evs, msg) ==
    /\ Publish(evs \o <<Ev("fatal_error", Text(msg)), Ev("quit", Number(1))>>)
    /\ pc' = "fatal"

\* run_player: an Err of run_audio_loop is sent as fatal_error, the thread ends.
Fatal(evs, msg) ==
    /\ Publish(evs \o <<Ev("fatal_error", Text(msg))>>)
    /\ pc' = "fatal"

Running == pc \notin {"done", "fatal"}

\* ------------------------------------------------------------------ senders
\* A sender that zeroes the clock itself when it sends.
Send_ZeroesClock ==
    /\ Running
    /\ nSent < MaxCmds
    /\ \E c \in Cmds :
         /\ cmdq' = Append(cmdq, c)
         /\ quitCtx' = IF c.op = "quit" /\ quitCtx = "none"
                       THEN IF cmdq = <<>> /\ player.chip_player = NoChip
                               /\ player.play_state = "Stopped"
                            THEN "idle" ELSE "busy"
                       ELSE IF quitCtx = "none" THEN "none" ELSE "busy"
    /\ nSent' = nSent + 1
    /\ msec' = 0
    /\ Publish(<<>>)
    /\ rc' = -1
    /\ err' = ""
    /\ UNCHANGED <<player, ring, plugin_freq, last_state, pc, quitRan,
                   doneEv, fresh>>
    /\ UNCHANGED outside

\* RustPlay::send_cmd and the tests' cmd_producer.send: any command, at any
\* time while the engine runs.
Send ==
    /\ Running
    /\ nSent < MaxCmds
    /\ \E c \in Cmds :
         /\ cmdq' = Append(cmdq, c)
         /\ quitCtx' = IF c.op = "quit" /\ quitCtx = "none"
                       THEN IF cmdq = <<>> /\ player.chip_player = NoChip
                               /\ player.play_state = "Stopped"
                            THEN "idle" ELSE "busy"
                       ELSE IF quitCtx = "none" THEN "none" ELSE "busy"
    /\ nSent' = nSent + 1
    /\ Publish(<<>>)
    /\ rc' = -1
    /\ err' = ""
    /\ UNCHANGED <<player, msec, ring, plugin_freq, last_state, pc, quitRan,
                   doneEv, fresh>>
    /\ UNCHANGED outside

\* ------------------------------------------------------------ audio callback
\* A callback that advances the clock whether or not it popped anything.
Callback_AlwaysTicks ==
    /\ Running
    /\ LET popped == Min(ring, BUFFER_SIZE) IN
         /\ ring' = ring - popped
         /\ msec' = msec + (BUFFER_SIZE * 1000) \div (PLAYBACK_FREQ_HZ * 2)
    /\ Publish(<<>>)
    /\ rc' = -1
    /\ err' = ""
    /\ UNCHANGED <<player, plugin_freq, last_state, pc, cmdq, nSent, quitCtx,
                   quitRan, doneEv, fresh>>
    /\ UNCHANGED outside

\* The closure given to audio_device.play, called with a buffer of
\* BUFFER_SIZE floats: pops what the ring holds and advances the clock if it
\* got anything.
Callback ==
    /\ Running
    /\ LET popped == Min(ring, BUFFER_SIZE) IN
         /\ ring' = ring - popped
         /\ msec' = IF popped > 0
                    THEN msec + (BUFFER_SIZE * 1000) \div (PLAYBACK_FREQ_HZ * 2)
                    ELSE msec
    /\ Publish(<<>>)
    /\ rc' = -1
    /\ err' = ""
    /\ UNCHANGED <<player, plugin_freq, last_state, pc, cmdq, nSent, quitCtx,
                   quitRan, doneEv, fresh>>
    /\ UNCHANGED outside

\* ------------------------------------------------------------- engine thread
\* while player.play_state != PlayState::Quitting { ... } push "quit"
LoopTest ==
    /\ pc = "while"
    /\ IF player.play_state # "Quitting"
       THEN pc' = "drain" /\ Publish(<<>>)
       ELSE pc' = "done" /\ Publish(<<Ev("quit", Number(1))>>)
    /\ rc' = -1
    /\ err' = ""
    /\ UNCHANGED <<player, msec, ring, plugin_freq, last_state, cmdq, nSent,
                   quitCtx, quitRan, doneEv, fresh>>
    /\ UNCHANGED outside

\* An engine that swallows a command's error.
ErrorInfo_Silent(e) == <<>>

\* What the engine publishes for a command's result.
ErrorInfo(e) == IF e # "" THEN <<Ev("error", Error(e))>> ELSE <<>>

\* while let Ok(cmd_fn) = cmd_consumer.try_recv(): one received command.
RunCmd ==
    /\ pc = "drain"
    /\ cmdq # <<>>
    /\ LET o == Run(Head(cmdq), player) IN
         /\ player' = o.player
         /\ msec' = IF o.reset THEN 0 ELSE msec
         /\ fresh' = IF o.reset THEN TRUE ELSE fresh
         /\ doneEv' = IF o.reset THEN 0 ELSE doneEv
         /\ err' = o.err
         /\ Publish(ErrorInfo(o.err))
    /\ cmdq' = Tail(cmdq)
    /\ quitRan' = (quitRan \/ Head(cmdq).op = "quit")
    /\ rc' = -1
    /\ UNCHANGED <<ring, plugin_freq, last_state, pc, nSent, quitCtx>>
    /\ UNCHANGED outside

\* try_recv finds the channel empty.
DrainEnd ==
    /\ pc = "drain"
    /\ cmdq = <<>>
    /\ pc' = "state"
    /\ Publish(<<>>)
    /\ rc' = -1
    /\ err' = ""
    /\ UNCHANGED <<player, msec, ring, plugin_freq, last_state, cmdq, nSent,
                   quitCtx, quitRan, doneEv, fresh>>
    /\ UNCHANGED outside

\* An engine that reports its state in every iteration.
ReportState_Always ==
    /\ pc = "state"
    /\ last_state' = player.play_state
    /\ Publish(<<Ev("state", Number(StateCode(player.play_state)))>>)
    /\ pc' = "meta"
    /\ rc' = -1
    /\ err' = ""
    /\ UNCHANGED <<player, msec, ring, plugin_freq, cmdq, nSent, quitCtx,
                   quitRan, doneEv, fresh>>
    /\ UNCHANGED outside

\* if player.play_state != last_state { ... push "state" }
ReportState ==
    /\ pc = "state"
    /\ last_state' = player.play_state
    /\ Publish(IF player.play_state # last_state
               THEN <<Ev("state", Number(StateCode(player.play_state)))>> ELSE <<>>)
    /\ pc' = "meta"
    /\ rc' = -1
    /\ err' = ""
    /\ UNCHANGED <<player, msec, ring, plugin_freq, cmdq, nSent, quitCtx,
                   quitRan, doneEv, fresh>>
    /\ UNCHANGED outside

\* Player::update_meta, the loop over chip_player.get_changed_meta(): the
\* metadata left to report, the player's counters, the events pushed so far
\* and the error a parse failure returns.
RECURSIVE ChangedMeta(_, _, _, _)
ChangedMeta(metas, song, songs, evs) ==
    IF metas = <<>>
    THEN [meta |-> metas, song |-> song, songs |-> songs, evs |-> evs, err |-> ""]
    ELSE LET m == Head(metas)
             i == ParseI32(m.val)
             f == ParseF64(m.val)
             stop(msg) == [meta |-> Tail(metas), song |-> song, songs |-> songs,
                           evs |-> evs, err |-> msg]
         IN  CASE m.key \in {"song", "startSong"} ->
                    IF i.ok
                    THEN ChangedMeta(Tail(metas), i.v, songs,
                                     Append(evs, Ev(m.key, Number(i.v))))
                    ELSE stop("invalid digit found in string")
               [] m.key = "songs" ->
                    IF i.ok
                    THEN ChangedMeta(Tail(metas), song, i.v,
                                     Append(evs, Ev(m.key, Number(i.v))))
                    ELSE stop("invalid digit found in string")
               [] m.key = "length" ->
                    IF f.ok
                    THEN ChangedMeta(Tail(metas), song, songs,
                                     Append(evs, Ev(m.key, Number(f.v))))
                    ELSE stop("invalid float literal")
               [] OTHER ->
                    ChangedMeta(Tail(metas), song, songs,
                                Append(evs, Ev(m.key, Text(m.val))))

\* Player::update_meta, the part run when new_song is set: the events pushed.
NewSongInfo(new_song) ==
    LET probe == Mp3Probe(new_song)
        opt(key, val) == IF val # <<>> THEN <<Ev(key, Text(val))>> ELSE <<>>
    IN  <<Ev("new", Number(0)), Ev("song", Number(0)), Ev("songs", Number(1))>>
        \o (IF Extension(new_song) = "mp3"
            THEN (IF probe.duration_ok
                  THEN <<Ev("length", Number(probe.secs))>> ELSE <<>>)
                 \o (IF probe.tag_ok
                     THEN opt("album", probe.album) \o opt("composer", probe.artist)
                          \o opt("title", probe.title)
                     ELSE <<>>)
            ELSE <<>>)

\* An update_meta that reports the codec's metadata before the new song.
update_meta_NewLast(p) ==
    LET isNew == p.new_song # ""
        song0 == IF isNew THEN 0 ELSE p.song
        songs0 == IF isNew THEN 1 ELSE p.songs
        evs0 == IF isNew THEN NewSongInfo(p.new_song) ELSE <<>>
        r == IF p.chip_player # NoChip
             THEN ChangedMeta(p.chip_player.meta, song0, songs0, <<>>)
             ELSE [meta |-> <<>>, song |-> song0, songs |-> songs0, evs |-> <<>>,
                   err |-> ""]
    IN  [player |-> [p EXCEPT !.new_song = "", !.song = r.song, !.songs = r.songs,
                              !.chip_player = IF @ = NoChip THEN @
                                              ELSE [@ EXCEPT !.meta = r.meta]],
         evs |-> r.evs \o evs0, err |-> r.err]

\* Player::update_meta: the player it leaves, the events pushed, the error.
update_meta(p) ==
    LET isNew == p.new_song # ""
        song0 == IF isNew THEN 0 ELSE p.song
        songs0 == IF isNew THEN 1 ELSE p.songs
        evs0 == IF isNew THEN NewSongInfo(p.new_song) ELSE <<>>
        r == IF p.chip_player # NoChip
             THEN ChangedMeta(p.chip_player.meta, song0, songs0, evs0)
             ELSE [meta |-> <<>>, song |-> song0, songs |-> songs0, evs |-> evs0,
                   err |-> ""]
    IN  [player |-> [p EXCEPT !.new_song = "", !.song = r.song, !.songs = r.songs,
                              !.chip_player = IF @ = NoChip THEN @
                                              ELSE [@ EXCEPT !.meta = r.meta]],
         evs |-> r.evs, err |-> r.err]

\* player.update_meta(&mut info_producer)?
UpdateMeta ==
    /\ pc = "meta"
    /\ LET r == update_meta(player) IN
         /\ player' = r.player
         /\ IF r.err = "" THEN pc' = "work" /\ Publish(r.evs)
            ELSE Fatal(r.evs, r.err)
    /\ rc' = -1
    /\ err' = ""
    /\ UNCHANGED <<msec, ring, plugin_freq, last_state, cmdq, nSent, quitCtx,
                   quitRan, doneEv, fresh>>
    /\ UNCHANGED outside

\* The arm of the loop's work dispatch when no chip player is loaded:
\* thread::sleep(IDLE_SLEEP_MS).
Idle ==
    /\ pc = "work"
    /\ player.chip_player = NoChip
    /\ pc' = "while"
    /\ Publish(<<>>)
    /\ rc' = -1
    /\ err' = ""
    /\ UNCHANGED <<player, msec, ring, plugin_freq, last_state, cmdq, nSent,
                   quitCtx, quitRan, doneEv, fresh>>
    /\ UNCHANGED outside

\* The duration of n samples taken as one channel's.
BufferMs_Mono(n, freq) == (n * 1000) \div freq

\* rc * 1000 / (plugin_freq as usize * 2)
BufferMs(n, freq) == (n * 1000) \div (freq * 2)

\* Fast forward mode: one buffer is pulled and discarded.
FastForward ==
    /\ pc = "work"
    /\ player.chip_player # NoChip
    /\ player.ff_msec > 0
    /\ LET n == get_samples(player.chip_player, BUFFER_SIZE)
           ms == BufferMs(n, plugin_freq)
       IN  /\ rc' = n
           /\ player' = [player EXCEPT
                           !.chip_player.left = @ - n,
                           !.ff_msec = IF ms > @ THEN 0 ELSE @ - ms]
           /\ msec' = msec + ms
           /\ Publish(IF n = 0 THEN <<Ev("done", Number(0))>> ELSE <<>>)
           /\ doneEv' = IF n = 0 THEN Min(doneEv + 1, 2) ELSE doneEv
    /\ fresh' = FALSE
    /\ pc' = "while"
    /\ err' = ""
    /\ UNCHANGED <<ring, plugin_freq, last_state, cmdq, nSent, quitCtx, quitRan>>
    /\ UNCHANGED outside

\* Resampler::process on n floats with the resampler set from rate hz to the
\* device's: the number of floats returned, or the error of the sinc
\* resampler, which takes exactly the frames it was built for.
Resample(n, hz) ==
    IF hz = PLAYBACK_FREQ_HZ THEN [ok |-> TRUE, n |-> n]
    ELSE IF n < BUFFER_SIZE THEN [ok |-> FALSE, n |-> 0]
         ELSE [ok |-> TRUE, n |-> (n * PLAYBACK_FREQ_HZ) \div hz]

\* A playback test that looks at the ring only.
CanPlay_AnyState == RING_BUFFER_SIZE - ring > BUFFER_SIZE * 2

\* audio_sink.vacant_len() > target.len() * 2 && play_state == Playing
CanPlay ==
    /\ RING_BUFFER_SIZE - ring > BUFFER_SIZE * 2
    /\ player.play_state = "Playing"

\* A playback arm that analyses every buffer it got samples for.
Playback_FftOnPartial ==
    /\ pc = "work"
    /\ player.chip_player # NoChip
    /\ player.ff_msec = 0
    /\ CanPlay
    /\ LET n == get_samples(player.chip_player, BUFFER_SIZE)
           hz == player.chip_player.hz
           res == Resample(n, hz)
           done == IF n = 0 THEN <<Ev("done", Number(0))>> ELSE <<>>
           fft == IF n > 0 THEN <<Ev("fft", Data)>> ELSE <<>>
       IN  /\ rc' = n
           /\ player' = [player EXCEPT !.chip_player.left = @ - n]
           /\ plugin_freq' = hz
           /\ doneEv' = IF n = 0 THEN Min(doneEv + 1, 2) ELSE doneEv
           /\ IF res.ok
              THEN /\ ring' = ring + Min(res.n, RING_BUFFER_SIZE - ring)
                   /\ Publish(done \o fft)
                   /\ pc' = "while"
              ELSE /\ ring' = ring
                   /\ Fatal(done, "Insufficient buffer size")
    /\ fresh' = FALSE
    /\ err' = ""
    /\ UNCHANGED <<msec, last_state, cmdq, nSent, quitCtx, quitRan>>
    /\ UNCHANGED outside

\* Normal playback mode: one buffer is pulled, resampled and pushed.
Playback ==
    /\ pc = "work"
    /\ player.chip_player # NoChip
    /\ player.ff_msec = 0
    /\ CanPlay
    /\ LET n == get_samples(player.chip_player, BUFFER_SIZE)
           hz == player.chip_player.hz
           res == Resample(n, hz)
           done == IF n = 0 THEN <<Ev("done", Number(0))>> ELSE <<>>
           fft == IF n = BUFFER_SIZE THEN <<Ev("fft", Data)>> ELSE <<>>
       IN  /\ rc' = n
           /\ player' = [player EXCEPT !.chip_player.left = @ - n]
           /\ plugin_freq' = hz
           /\ doneEv' = IF n = 0 THEN Min(doneEv + 1, 2) ELSE doneEv
           /\ IF res.ok
              THEN /\ ring' = ring + Min(res.n, RING_BUFFER_SIZE - ring)
                   /\ Publish(done \o fft)
                   /\ pc' = "while"
              ELSE /\ ring' = ring
                   /\ Fatal(done, "Insufficient buffer size")
    /\ fresh' = FALSE
    /\ err' = ""
    /\ UNCHANGED <<msec, last_state, cmdq, nSent, quitCtx, quitRan>>
    /\ UNCHANGED outside

\* thread::sleep(AUDIO_THREAD_SLEEP_MS): paused, stopped or the ring is full.
Sleep ==
    /\ pc = "work"
    /\ player.chip_player # NoChip
    /\ player.ff_msec = 0
    /\ ~CanPlay
    /\ pc' = "while"
    /\ Publish(<<>>)
    /\ rc' = -1
    /\ err' = ""
    /\ UNCHANGED <<player, msec, ring, plugin_freq, last_state, cmdq, nSent,
                   quitCtx, quitRan, doneEv, fresh>>
    /\ UNCHANGED outside

Engine ==
    \/ LoopTest
    \/ RunCmd
    \/ DrainEnd
    \/ ReportState
    \/ UpdateMeta
    \/ Idle
    \/ FastForward
    \/ Playback
    \/ Sleep

Next ==
    \/ Send
    \/ Callback
    \/ LoopTest
    \/ RunCmd
    \/ DrainEnd
    \/ ReportState
    \/ UpdateMeta
    \/ Idle
    \/ FastForward
    \/ Playback
    \/ Sleep

Spec == Init /\ [][Next]_vars

\* The engine is a thread of its own and the callback is driven by the device.
FairSpec == Spec /\ WF_vars(Engine) /\ WF_vars(Callback)

\* ------------------------------------------------------------- codec rates
\* Output rates a codec may report besides the fixtures' (get_frequency).
CodecRates == {16000, 32000, 48000}

\* The engine has loaded and announced a song of three full buffers whose
\* codec runs at one of these rates, and is about to play it.
RateInit ==
    /\ \E hz \in CodecRates :
         player = [DefaultPlayer EXCEPT
                     !.chip_player = [path |-> "music.mod", songs |-> 1,
                                      left |-> 3 * BUFFER_SIZE, hz |-> hz,
                                      meta |-> <<>>],
                     !.songs = 1,
                     !.play_state = "Playing"]
    /\ msec = 0
    /\ ring = 0
    /\ plugin_freq = PLAYBACK_FREQ_HZ
    /\ last_state = "Playing"
    /\ pc = "work"
    /\ cmdq = <<>>
    /\ nSent = 0
    /\ out = <<>>
    /\ rc = -1
    /\ err = ""
    /\ quitCtx = "none"
    /\ afterQuit = ""
    /\ quitRan = FALSE
    /\ doneEv = 0
    /\ fresh = TRUE
    /\ current_list = 0
    /\ current_song = 0
    /\ state_done = FALSE
    /\ info = <<>>
    /\ sent = <<>>
    /\ faucet = <<>>
    /\ data = <<>>
    /\ nPopped = -1
    /\ IxInit
    /\ MkInit
    /\ BnInit
    /\ TeInit
    /\ FqInit
    /\ LsInit

\* The engine playing that song with no command sent to it.
RateNext ==
    \/ Callback
    \/ LoopTest
    \/ DrainEnd
    \/ ReportState
    \/ UpdateMeta
    \/ Playback
    \/ Sleep

RateSpec == RateInit /\ [][RateNext]_vars

\* ------------------------------------------------------------ fast forward
\* Arguments of the one ff(msec) request of a run: the length of one buffer,
\* a little more, and the UI's (key f).
FfDurations == {23, 30, 10000}

\* The engine has loaded and announced a song long enough to give full
\* buffers all through the longest fast-forward, and is about to play it.
FfInit ==
    /\ player = [DefaultPlayer EXCEPT
                   !.chip_player = [path |-> "music.mod", songs |-> 1,
                                    left |-> 440 * BUFFER_SIZE,
                                    hz |-> PLAYBACK_FREQ_HZ, meta |-> <<>>],
                   !.songs = 1,
                   !.play_state = "Playing"]
    /\ msec = 0
    /\ ring = 0
    /\ plugin_freq = PLAYBACK_FREQ_HZ
    /\ last_state = "Playing"
    /\ pc = "work"
    /\ cmdq = <<>>
    /\ nSent = 0
    /\ out = <<>>
    /\ rc = -1
    /\ err = ""
    /\ quitCtx = "none"
    /\ afterQuit = ""
    /\ quitRan = FALSE
    /\ doneEv = 0
    /\ fresh = TRUE
    /\ current_list = 0
    /\ current_song = 0
    /\ state_done = FALSE
    /\ info = <<>>
    /\ sent = <<>>
    /\ faucet = <<>>
    /\ data = <<>>
    /\ nPopped = -1
    /\ IxInit
    /\ MkInit
    /\ BnInit
    /\ TeInit
    /\ FqInit
    /\ LsInit

\* RustPlay::send_cmd(|player| player.ff(msec)), once in a run; `sent`
\* keeps the request.
SendFf ==
    /\ Running
    /\ nSent = 0
    /\ \E m \in FfDurations :
         /\ cmdq' = Append(cmdq, Cmd("ff", "", m))
         /\ sent' = Append(sent, Cmd("ff", "", m))
    /\ nSent' = nSent + 1
    /\ Publish(<<>>)
    /\ rc' = -1
    /\ err' = ""
    /\ UNCHANGED <<player, msec, ring, plugin_freq, last_state, pc, quitCtx, quitRan,
                   doneEv, fresh>>
    /\ UNCHANGED <<current_list, current_song, state_done, info, cbVars, ixVars, mkVars,
                   bnVars, teVars, fqVars, lsVars>>

\* The engine with that one request and a device that takes nothing from
\* the ring meanwhile, so that the clock moves by the fast-forward only.
FfNext ==
    \/ SendFf
    \/ LoopTest
    \/ RunCmd
    \/ DrainEnd
    \/ ReportState
    \/ UpdateMeta
    \/ FastForward
    \/ Playback
    \/ Sleep

FfSpec == FfInit /\ [][FfNext]_vars

\* ------------------------------------------------------- command channel
\* Number of commands a sender puts on the channel in a burst of key presses.
MaxBurst == 6

\* The keys held down: play/pause and quit.
BurstCmds == {Cmd("play_pause", "", 0), Cmd("quit", "", 0)}

\* RustPlay::send_cmd on the channel of mpsc::channel::<Cmd>(): the send
\* succeeds whatever the number of commands waiting.
SendBurst ==
    /\ Running
    /\ nSent < MaxBurst
    /\ \E c \in BurstCmds :
         /\ cmdq' = Append(cmdq, c)
         /\ quitCtx' = IF c.op = "quit" /\ quitCtx = "none"
                       THEN IF cmdq = <<>> /\ player.chip_player = NoChip
                               /\ player.play_state = "Stopped"
                            THEN "idle" ELSE "busy"
                       ELSE IF quitCtx = "none" THEN "none" ELSE "busy"
    /\ nSent' = nSent + 1
    /\ Publish(<<>>)
    /\ rc' = -1
    /\ err' = ""
    /\ UNCHANGED <<player, msec, ring, plugin_freq, last_state, pc, quitRan,
                   doneEv, fresh>>
    /\ UNCHANGED outside

\* The engine with no song loaded, and that sender.
QueueNext ==
    \/ SendBurst
    \/ LoopTest
    \/ RunCmd
    \/ DrainEnd
    \/ ReportState
    \/ UpdateMeta
    \/ Idle

QueueSpec == Init /\ [][QueueNext]_vars

\* ------------------------------------------------------------- UI play list
\* Number of songs of the longest play list.
MaxList == 3
\* Number of info events the channel holds at most before the UI drains it.
MaxInfo == 2

\* Keys of the info events the engine sends.
InfoKeys == {"done", "title"}

\* RustPlay::next on a play list of `list` songs (0: None) at index song: the
\* index it leaves and the entries play_song sends a load for.
next(list, song) ==
    IF list # 0
    THEN LET n == IF song + 1 < list THEN song + 1 ELSE song
         IN  [current_song |-> n, sent |-> <<n>>]
    ELSE [current_song |-> song, sent |-> <<>>]

\* RustPlay::prev
prev(list, song) ==
    IF list # 0
    THEN LET n == IF song > 1 THEN song - 1 ELSE song
         IN  [current_song |-> n, sent |-> <<n>>]
    ELSE [current_song |-> song, sent |-> <<>>]

\* The engine sends an info event.
InfoSend ==
    /\ Len(info) < MaxInfo
    /\ \E k \in InfoKeys : info' = Append(info, k)
    /\ sent' = <<>>
    /\ UNCHANGED <<current_list, current_song, state_done>>
    /\ UNCHANGED <<engineVars, cbVars, ixVars, mkVars, bnVars, teVars, fqVars,
                   lsVars>>

\* RustPlay::update_meta: acts on a "done" drained by the call before, then
\* drains the info channel; State::update_meta sets done on a "done" event.
UiUpdateMeta ==
    /\ LET r == IF state_done THEN next(current_list, current_song)
                ELSE [current_song |-> current_song, sent |-> <<>>]
       IN  /\ current_song' = r.current_song
           /\ sent' = r.sent
    /\ state_done' = (\E i \in 1..Len(info) : info[i] = "done")
    /\ info' = <<>>
    /\ UNCHANGED current_list
    /\ UNCHANGED <<engineVars, cbVars, ixVars, mkVars, bnVars, teVars, fqVars,
                   lsVars>>

\* handle_keys: 'n'
KeyNext ==
    /\ LET r == next(current_list, current_song)
       IN  /\ current_song' = r.current_song
           /\ sent' = r.sent
    /\ UNCHANGED <<current_list, state_done, info>>
    /\ UNCHANGED <<engineVars, cbVars, ixVars, mkVars, bnVars, teVars, fqVars,
                   lsVars>>

\* handle_keys: 'p'
KeyPrev ==
    /\ LET r == prev(current_list, current_song)
       IN  /\ current_song' = r.current_song
           /\ sent' = r.sent
    /\ UNCHANGED <<current_list, state_done, info>>
    /\ UNCHANGED <<engineVars, cbVars, ixVars, mkVars, bnVars, teVars, fqVars,
                   lsVars>>

\* handle_keys, KeyReturn::PlaySong: the search result becomes the play
\* list (None if there is none) and the song picked in it is played.
PlaySong ==
    /\ \E n \in 0..MaxList : \E i \in 0..MaxList :
         /\ n = 0 => i = current_song
         /\ n > 0 => i < n
         /\ current_list' = n
         /\ current_song' = i
         /\ sent' = <<i>>
    /\ UNCHANGED <<state_done, info>>
    /\ UNCHANGED <<engineVars, cbVars, ixVars, mkVars, bnVars, teVars, fqVars,
                   lsVars>>

UiNext ==
    \/ InfoSend
    \/ UiUpdateMeta
    \/ KeyNext
    \/ KeyPrev
    \/ PlaySong

UiSpec == Init /\ [][UiNext]_vars

\* -------------------------------------------------------------- track end
\* Number of tracks that run out in one run, and of next() calls made for
\* them.
MaxEnds == 2
MaxNexts == 3

\* The UI has a play list of MaxList songs and the engine plays its first.
EndInit ==
    /\ player = DefaultPlayer
    /\ msec = 0
    /\ ring = 0
    /\ plugin_freq = PLAYBACK_FREQ_HZ
    /\ last_state = DefaultPlayer.play_state
    /\ pc = "while"
    /\ cmdq = <<>>
    /\ nSent = 0
    /\ out = <<>>
    /\ rc = -1
    /\ err = ""
    /\ quitCtx = "none"
    /\ afterQuit = ""
    /\ quitRan = FALSE
    /\ doneEv = 0
    /\ fresh = FALSE
    /\ current_list = MaxList
    /\ current_song = 0
    /\ state_done = FALSE
    /\ info = <<>>
    /\ sent = <<>>
    /\ faucet = <<>>
    /\ data = <<>>
    /\ nPopped = -1
    /\ IxInit
    /\ MkInit
    /\ BnInit
    /\ TeInit
    /\ FqInit
    /\ LsInit

\* The song the engine plays gives its last samples.
TrackEnds ==
    /\ ~ended
    /\ nEnds < MaxEnds
    /\ ended' = TRUE
    /\ nEnds' = nEnds + 1
    /\ UNCHANGED <<loads, nNext, engineVars, uiVars, cbVars, ixVars, mkVars, bnVars,
                   fqVars, lsVars>>

\* An iteration of the engine on a song that has ended: get_samples returns
\* 0 and ("done", 0) is published, in every iteration until a load is run.
EngineDone ==
    /\ ended
    /\ Len(info) < MaxInfo
    /\ info' = Append(info, "done")
    /\ sent' = <<>>
    /\ UNCHANGED <<current_list, current_song, state_done, engineVars, cbVars, ixVars,
                   mkVars, bnVars, teVars, fqVars, lsVars>>

\* The engine runs a load the UI sent: the new song plays.
EngineLoad ==
    /\ loads > 0
    /\ loads' = loads - 1
    /\ ended' = FALSE
    /\ UNCHANGED <<nEnds, nNext, engineVars, uiVars, cbVars, ixVars, mkVars, bnVars,
                   fqVars, lsVars>>

\* RustPlay::update_meta: next() for a "done" drained by the call before,
\* whose play_song sends a load; then the info channel is drained.
EndUpdateMeta ==
    /\ state_done => nNext < MaxNexts
    /\ LET r == IF state_done THEN next(current_list, current_song)
                ELSE [current_song |-> current_song, sent |-> <<>>]
       IN  /\ current_song' = r.current_song
           /\ sent' = r.sent
           /\ loads' = loads + Len(r.sent)
    /\ nNext' = IF state_done THEN nNext + 1 ELSE nNext
    /\ state_done' = (\E i \in 1..Len(info) : info[i] = "done")
    /\ info' = <<>>
    /\ UNCHANGED <<current_list, ended, nEnds, engineVars, cbVars, ixVars, mkVars,
                   bnVars, fqVars, lsVars>>

EndNext ==
    \/ TrackEnds
    \/ EngineDone
    \/ EngineLoad
    \/ EndUpdateMeta

EndSpec == EndInit /\ [][EndNext]_vars

\* ------------------------------------------------- ring and output contents
\* Length of the longest output buffer the device hands to the callback.
MaxOut == 3
\* Capacity of the ring, in samples.
MaxRing == 4
\* Number of samples the engine pushes at most in one push_slice.
MaxPush == 2

\* Sample values the codec produces (none of them silence).
Samples == {1, 2}

\* audio_sink.push_slice(new_samples): as many of the new samples as the
\* ring has room for.
PushSlice ==
    /\ Len(faucet) < MaxRing
    /\ \E n \in 1..MaxPush : \E s \in [1..n -> Samples] :
         faucet' = faucet \o SubSeq(s, 1, Min(n, MaxRing - Len(faucet)))
    /\ ring' = Len(faucet')
    /\ nPopped' = -1
    /\ UNCHANGED <<data, uiVars, ixVars, mkVars, bnVars, teVars, fqVars, lsVars>>
    /\ UNCHANGED <<player, msec, plugin_freq, last_state, pc, cmdq, nSent, out,
                   rc, err, quitCtx, afterQuit, quitRan, doneEv, fresh>>

\* The closure given to audio_device.play, on an output buffer of any length
\* holding whatever the device left in it: pop_slice overwrites as many slots
\* as the ring has samples for; the buffer is zeroed only if it got none.
CallbackRun ==
    /\ \E L \in 1..MaxOut : \E pre \in [1..L -> Samples \cup {0}] :
         LET k == Min(Len(faucet), L) IN
           /\ data' = [i \in 1..L |-> IF i <= k THEN faucet[i]
                                      ELSE IF k > 0 THEN pre[i] ELSE 0]
           /\ faucet' = SubSeq(faucet, k + 1, Len(faucet))
           /\ nPopped' = k
           /\ msec' = IF k > 0
                      THEN msec + (L * 1000) \div (PLAYBACK_FREQ_HZ * 2)
                      ELSE msec
    /\ ring' = Len(faucet')
    /\ UNCHANGED <<uiVars, ixVars, mkVars, bnVars, teVars, fqVars, lsVars>>
    /\ UNCHANGED <<player, plugin_freq, last_state, pc, cmdq, nSent, out,
                   rc, err, quitCtx, afterQuit, quitRan, doneEv, fresh>>

CbNext ==
    \/ PushSlice
    \/ CallbackRun

CbSpec == Init /\ [][CbNext]_vars

\* -------------------------------------------------------------- song index
\* A path is the sequence of its components from the root down; a document
\* is the record of the fields the doc! macro gives it; the index is the
\* sequence of documents added to the writer, of which the reader sees the
\* first `committed`.

\* Bound on the AddPath commands the UI sends and on get_songs' arguments.
MaxAdds == 2
MaxIdx == 2

\* A subset of FORMAT_DIRS.
FORMAT_DIRS == {"AHX", "Fasttracker 2", "Protracker"}

\* The roots the UI adds.
Roots == {"modland", "c64", "incoming"}

\* What WalkDir yields for a root, in order: the root directory itself and
\* then its files.  short.sid has fewer than 0x60 bytes.
Tree(root) ==
    CASE root = "modland" ->
            << [path |-> <<"modland">>, kind |-> "dir"],
               [path |-> <<"modland", "Fasttracker 2", "Purple Motion", "song.xm">>,
                kind |-> "file"],
               [path |-> <<"modland", "Protracker", "Hubbard", "Game X", "tune.mod">>,
                kind |-> "file"] >>
      [] root = "c64" ->
            << [path |-> <<"c64">>, kind |-> "dir"],
               [path |-> <<"c64", "ark.sid">>, kind |-> "file"],
               [path |-> <<"c64", "notes.txt">>, kind |-> "file"] >>
      [] OTHER ->
            << [path |-> <<"incoming">>, kind |-> "dir"],
               [path |-> <<"incoming", "short.sid">>, kind |-> "file"],
               [path |-> <<"incoming", "late.xm">>, kind |-> "file"] >>

\* Path::file_name, Path::file_stem and Path::extension of the fixture files.
file_name(path) == path[Len(path)]

file_stem(path) ==
    CASE file_name(path) = "song.xm" -> "song"
      [] file_name(path) = "tune.mod" -> "tune"
      [] file_name(path) = "ark.sid" -> "ark"
      [] file_name(path) = "notes.txt" -> "notes"
      [] file_name(path) = "short.sid" -> "short"
      [] OTHER -> "late"

extension(path) ==
    CASE file_name(path) \in {"song.xm", "late.xm"} -> "xm"
      [] file_name(path) = "tune.mod" -> "mod"
      [] file_name(path) \in {"ark.sid", "short.sid"} -> "sid"
      [] OTHER -> "txt"

\* The words the index's tokenizer makes of a text field: split at
\* non-alphanumeric characters, lower-cased.
Tokens(text) ==
    CASE text = "song.xm" -> {"song", "xm"}
      [] text = "tune.mod" -> {"tune", "mod"}
      [] text = "ark.sid" -> {"ark", "sid"}
      [] text = "notes.txt" -> {"notes", "txt"}
      [] text = "short.sid" -> {"short", "sid"}
      [] text = "late.xm" -> {"late", "xm"}
      [] text = "Purple Motion" -> {"purple", "motion"}
      [] text = "Ark Pandora" -> {"ark", "pandora"}
      [] text = "Game X" -> {"game", "x"}
      [] OTHER -> {CASE text = "Hubbard" -> "hubbard" [] OTHER -> text}

\* Indexer::identify_song: a .sid file's header holds its title and
\* composer, and reading it fails on a file that is too short; the codec
\* identifies none of the other fixture files.
identify_song(path) ==
    IF extension(path) = "sid"
    THEN IF file_name(path) = "short.sid"
         THEN [ok |-> FALSE, some |-> FALSE, info |-> <<>>]
         ELSE [ok |-> TRUE, some |-> TRUE,
               info |-> [title |-> "Ark Pandora", composer |-> "Hubbard",
                         game |-> ""]]
    ELSE [ok |-> TRUE, some |-> FALSE, info |-> <<>>]

\* song_list.push_back under the guard both add functions share.
PushWarm(song_list, file_info) ==
    IF Len(song_list) < 100 THEN Append(song_list, file_info) ELSE song_list

\* Indexer::add_with_info.
add_with_info(ix, song_path, song_info) ==
    [ix EXCEPT
        !.count = @ + 1,
        !.docs = Append(@, [title |-> song_info.title,
                            composer |-> song_info.composer,
                            file_name |-> file_name(song_path),
                            path |-> song_path]),
        !.song_list = PushWarm(@, [path |-> song_path,
                                   meta_data |-> {<<"title", song_info.title>>,
                                                  <<"composer", song_info.composer>>}])]

\* Indexer::add_path; segments[i] is the i-th ancestor's name, the file
\* itself being segments[0].
add_path(ix, song_path) ==
    LET l == Len(song_path)
        segments(i) == song_path[l - i]
    IN  IF l >= 3 /\ segments(2) \in FORMAT_DIRS
        THEN add_with_info(ix, song_path,
                 [title |-> file_stem(song_path), composer |-> segments(1),
                  game |-> ""])
        ELSE IF l >= 4 /\ segments(3) \in FORMAT_DIRS
        THEN add_with_info(ix, song_path,
                 [title |-> file_stem(song_path), game |-> segments(1),
                  composer |-> segments(2)])
        ELSE [ix EXCEPT
                !.count = @ + 1,
                !.docs = Append(@, [file_name |-> file_name(song_path),
                                    path |-> song_path]),
                !.song_list = PushWarm(@, [path |-> song_path,
                                           meta_data |-> {}])]

\* A commit that leaves the reader where it was.
commit_NoReload(ix) == ix

\* Indexer::commit: the reader sees everything added so far.
commit(ix) == [ix EXCEPT !.committed = Len(ix.docs)]

\* get_string: a stored field's text, "???" for a field the document lacks.
get_string(doc, field) == IF field \in DOMAIN doc THEN doc[field] ELSE "???"

\* The words of a document's indexed fields (title, composer, file_name).
DocTokens(doc) ==
    UNION {Tokens(doc[f]) : f \in DOMAIN doc \cap {"title", "composer", "file_name"}}

\* The query parser's default: a document matches when one of the query's
\* words is in one of its indexed fields.
Matches(doc, query) == \E i \in 1..Len(query) : query[i] \in DocTokens(doc)

RECURSIVE Hits(_, _, _)
Hits(docs, n, query) ==
    IF n = 0 THEN <<>>
    ELSE LET rest == Hits(docs, n - 1, query)
             d == docs[n]
         IN  IF Matches(d, query)
             THEN Append(rest,
                     [path |-> d.path,
                      meta_data |-> {<<"title", get_string(d, "title")>>,
                                     <<"composer", get_string(d, "composer")>>}])
             ELSE rest

\* A search that reads the writer's documents, committed or not.
search_Uncommitted(ix, query) ==
    [ix EXCEPT !.result = Hits(ix.docs, Len(ix.docs), query)]

\* Indexer::search: the result becomes the matching documents the reader
\* sees (kept here in the order they were added).
search(ix, query) == [ix EXCEPT !.result = Hits(ix.docs, ix.committed, query)]

\* Indexer::next.
IndexerNext(ix) ==
    IF ix.song_list = <<>>
    THEN [ix |-> ix, val |-> <<>>]
    ELSE [ix |-> [ix EXCEPT !.song_list = Tail(@)], val |-> <<Head(ix.song_list)>>]

\* result[a..b]: the slice panics unless a <= b <= len.
Slice(result, a, b) ==
    IF a > b \/ b > Len(result)
    THEN [ok |-> FALSE, val |-> <<>>]
    ELSE [ok |-> TRUE, val |-> SubSeq(result, a + 1, b)]

\* RemoteIndexer::get_songs.
get_songs(ix, start, stop) ==
    LET song_len == Len(ix.result)
    IN  IF song_len = 0 THEN [ok |-> TRUE, val |-> <<>>]
        ELSE IF stop > song_len THEN Slice(ix.result, start, song_len)
        ELSE Slice(ix.result, start, stop)

\* The UI thread is running: no call of its has panicked.
UiAlive == ret.ok

\* RemoteIndexer::add_path: send, unwrapped; the send fails once the
\* worker thread has ended and dropped the receiver.
RemoteAddPath ==
    /\ UiAlive
    /\ nAdds < MaxAdds
    /\ \E root \in Roots :
        /\ rx' = IF ipc = "dead" THEN rx ELSE Append(rx, root)
        /\ ret' = [call |-> "add_path", ok |-> ipc # "dead", arg |-> <<root>>,
                   val |-> <<>>]
    /\ nAdds' = nAdds + 1
    /\ UNCHANGED <<indexer, walk, ipc, seen, cur, walked, engineVars, uiVars, cbVars, mkVars,
                   bnVars, teVars, fqVars, lsVars>>

\* The worker's rx.recv and the start of the walk.
Recv ==
    /\ ipc = "recv"
    /\ rx # <<>>
    /\ walk' = Tree(Head(rx))
    /\ rx' = Tail(rx)
    /\ ipc' = "walk"
    /\ cur' = Head(rx)
    /\ UNCHANGED <<indexer, ret, seen, nAdds, walked, engineVars, uiVars, cbVars, mkVars,
                   bnVars, teVars, fqVars, lsVars>>

\* One turn of the walk's loop: a walk error or a failed identify_song
\* ends the worker thread (unwrap; `?` and the thread's expect); a file
\* is added; the index is committed when a second has elapsed.
WalkEntry ==
    /\ ipc = "walk"
    /\ walk # <<>>
    /\ LET p == Head(walk)
           id == identify_song(p.path)
       IN  IF p.kind = "err" \/ (p.kind = "file" /\ ~id.ok)
           THEN /\ ipc' = "dead"
                /\ UNCHANGED <<indexer, walk>>
           ELSE \E elapsed \in BOOLEAN :
                LET added == IF p.kind # "file" THEN indexer
                             ELSE IF id.some
                                  THEN add_with_info(indexer, p.path, id.info)
                                  ELSE add_path(indexer, p.path)
                IN  /\ indexer' = IF elapsed THEN commit(added) ELSE added
                    /\ walk' = Tail(walk)
                    /\ ipc' = "walk"
    /\ UNCHANGED <<rx, ret, seen, nAdds, cur, walked, engineVars, uiVars, cbVars, mkVars,
                   bnVars, teVars, fqVars, lsVars>>

\* The commit after the walk's loop.
WalkEnd ==
    /\ ipc = "walk"
    /\ walk = <<>>
    /\ indexer' = commit(indexer)
    /\ ipc' = "recv"
    /\ walked' = walked \cup {cur}
    /\ UNCHANGED <<rx, walk, ret, seen, nAdds, cur, engineVars, uiVars, cbVars, mkVars,
                   bnVars, teVars, fqVars, lsVars>>

\* RemoteIndexer::search from the UI.
UiSearch ==
    /\ UiAlive
    /\ \E query \in Queries :
        /\ indexer' = search(indexer, query)
        /\ ret' = [call |-> "search", ok |-> TRUE, arg |-> query, val |-> <<>>]
        /\ seen' = [seen EXCEPT ![query] =
                       @ \cup {indexer'.result[i].path : i \in 1..Len(indexer'.result)}]
    /\ UNCHANGED <<rx, walk, ipc, nAdds, cur, walked, engineVars, uiVars, cbVars, mkVars,
                   bnVars, teVars, fqVars, lsVars>>

\* RemoteIndexer::next from the UI.
UiIndexerNext ==
    /\ UiAlive
    /\ LET r == IndexerNext(indexer)
       IN  /\ indexer' = r.ix
           /\ ret' = [call |-> "next", ok |-> TRUE, arg |-> <<>>, val |-> r.val]
    /\ UNCHANGED <<rx, walk, ipc, seen, nAdds, cur, walked, engineVars, uiVars, cbVars, mkVars,
                   bnVars, teVars, fqVars, lsVars>>

\* RemoteIndexer::get_songs from the UI.
UiGetSongs ==
    /\ UiAlive
    /\ \E start \in 0..MaxIdx, stop \in 0..MaxIdx :
        LET r == get_songs(indexer, start, stop)
        IN  ret' = [call |-> "get_songs", ok |-> r.ok, arg |-> <<start, stop>>,
                    val |-> r.val]
    /\ UNCHANGED <<indexer, rx, walk, ipc, seen, nAdds, cur, walked, engineVars, uiVars,
                   cbVars, mkVars, bnVars, teVars, fqVars, lsVars>>

IxNext ==
    \/ RemoteAddPath
    \/ Recv
    \/ WalkEntry
    \/ WalkEnd
    \/ UiSearch
    \/ UiIndexerNext
    \/ UiGetSongs

IxSpec == Init /\ [][IxNext]_vars

\* Number of files added to the index while the UI pops the warm list.
MaxFiles == 102

\* Indexer::add_path called for one more file of a library whose files no
\* rule identifies; the n-th file's path is <<n>>.
IndexerAddPath ==
    /\ indexer.count < MaxFiles
    /\ indexer' = add_path(indexer, <<indexer.count + 1>>)
    /\ UNCHANGED <<rx, walk, ipc, ret, seen, nAdds, cur, walked, engineVars, uiVars,
                   cbVars, mkVars, bnVars, teVars, fqVars, lsVars>>

WarmNext ==
    \/ IndexerAddPath
    \/ UiIndexerNext

WarmSpec == Init /\ [][WarmNext]_vars

\* ------------------------------------------------- remote control surface
\* Number of remote method calls in one run.
MaxCalls == 3

\* The methods of org.mpris.MediaPlayer2.Player that stand for a media key.
Methods == {"next", "previous", "play_pause", "play", "pause", "stop"}

\* A surface whose Stop sends the event of Pause.
MediaPlayer_StopPauses(method) ==
    CASE method = "next" -> "Next"
      [] method = "previous" -> "Previous"
      [] method = "play_pause" -> "PlayPause"
      [] method = "play" -> "Play"
      [] OTHER -> "Pause"

\* The MediaKeyEvent each method of MediaPlayer sends.
MediaPlayer(method) ==
    CASE method = "next" -> "Next"
      [] method = "previous" -> "Previous"
      [] method = "play_pause" -> "PlayPause"
      [] method = "play" -> "Play"
      [] method = "pause" -> "Pause"
      [] OTHER -> "Stop"

\* A remote method call: let _ = event_sender.send(event); Ok(()).  The
\* send fails, and the event is dropped, once the receiver is gone.
Invoke ==
    /\ Len(invoked) < MaxCalls
    /\ \E method \in Methods :
        /\ event_channel' = IF receiver THEN Append(event_channel, MediaPlayer(method))
                             ELSE event_channel
        /\ invoked' = IF receiver THEN Append(invoked, method) ELSE invoked
        /\ method_ret' = [method |-> method, ok |-> TRUE]
    /\ UNCHANGED <<receiver, received, engineVars, uiVars, cbVars, ixVars, bnVars,
                   teVars, fqVars, lsVars>>

\* event_receiver.try_recv by the receiver's owner.
TryRecv ==
    /\ receiver
    /\ event_channel # <<>>
    /\ received' = Append(received, Head(event_channel))
    /\ event_channel' = Tail(event_channel)
    /\ UNCHANGED <<receiver, method_ret, invoked, engineVars, uiVars, cbVars, ixVars,
                   bnVars, teVars, fqVars, lsVars>>

\* The receiver's owner drops it; what the channel held goes with it.
DropReceiver ==
    /\ receiver
    /\ receiver' = FALSE
    /\ event_channel' = <<>>
    /\ UNCHANGED <<method_ret, invoked, received, engineVars, uiVars, cbVars, ixVars,
                   bnVars, teVars, fqVars, lsVars>>

MkNext ==
    \/ Invoke
    \/ TryRecv
    \/ DropReceiver

MkSpec == Init /\ [][MkNext]_vars

\* ------------------------------------------------------------ error banner
\* Number of errors that arrive in one run.
MaxErrs == 6

\* enum InputMode.
InputModes == {"Main", "SearchInput", "ResultScreen"}

\* A banner that shows every error for the longest time.
Countdown_Flat(l) == 50

\* The frames an error is shown for, from the backlog when it comes up.
Countdown(l) == IF l >= 5 THEN 1 ELSE IF l >= 2 THEN 10 ELSE 50

\* State::update_meta with a Value::Error.
ErrorArrives ==
    /\ nErr < MaxErrs
    /\ nErr' = nErr + 1
    /\ errors' = Append(errors, nErr + 1)
    /\ UNCHANGED <<show_error, mode, shown, tick, engineVars, uiVars, cbVars, ixVars,
                   mkVars, teVars, fqVars, lsVars>>

\* A key that changes the input mode.
SetMode ==
    /\ \E m \in InputModes \ {mode} : mode' = m
    /\ UNCHANGED <<errors, show_error, shown, tick, nErr, engineVars, uiVars, cbVars,
                   ixVars, mkVars, teVars, fqVars, lsVars>>

\* RustPlay::draw_screen on a terminal: the result screen returns before
\* the banner; otherwise the banner counts down and prints the front error,
\* or sets the countdown for the next one.
DrawFrame ==
    /\ tick' = ~tick
    /\ IF mode = "ResultScreen"
       THEN /\ shown' = 0
            /\ UNCHANGED <<errors, show_error>>
       ELSE IF show_error > 0
       THEN /\ show_error' = show_error - 1
            /\ shown' = IF errors = <<>> THEN 0 ELSE Head(errors)
            /\ errors' = IF show_error' = 0 /\ errors # <<>> THEN Tail(errors)
                          ELSE errors
       ELSE /\ shown' = 0
            /\ show_error' = IF errors # <<>> THEN Countdown(Len(errors)) ELSE 0
            /\ UNCHANGED errors
    /\ UNCHANGED <<mode, nErr, engineVars, uiVars, cbVars, ixVars, mkVars, teVars,
                   fqVars, lsVars>>

BnNext ==
    \/ ErrorArrives
    \/ SetMode
    \/ DrawFrame

BnSpec == Init /\ [][BnNext]_vars

\* -------------------------------------------------------------------- fifo
\* The length above which push_back waits.  The code's is 64 * 1024; the
\* model's queue is scaled down to this.
LIMIT == 3

\* Number of push_back calls in one run.
MaxVals == 6

\* A push that puts the value at the front.
Push_Front(p) ==
    /\ deque' = <<pval[p]>> \o deque
    /\ pushed' = Append(pushed, pval[p])
    /\ ppc' = [ppc EXCEPT ![p] = "idle"]

\* guard.push_back(v); return
Push(p) ==
    /\ deque' = Append(deque, pval[p])
    /\ pushed' = Append(pushed, pval[p])
    /\ ppc' = [ppc EXCEPT ![p] = "idle"]

\* A producer calls push_back(v); the values pushed are numbered.
PushCall(p) ==
    /\ ppc[p] = "idle"
    /\ nVals < MaxVals
    /\ nVals' = nVals + 1
    /\ pval' = [pval EXCEPT ![p] = nVals + 1]
    /\ ppc' = [ppc EXCEPT ![p] = "loop"]
    /\ UNCHANGED <<deque, pushed, taken, pop_ret, engineVars, uiVars, cbVars, ixVars, mkVars,
                   bnVars, teVars, lsVars>>

\* The top of push_back's loop, under the lock: over the limit the producer
\* waits on the condition variable, otherwise it pushes.
PushLock(p) ==
    /\ ppc[p] = "loop"
    /\ IF Len(deque) > LIMIT
       THEN /\ ppc' = [ppc EXCEPT ![p] = "wait"]
            /\ UNCHANGED <<deque, pushed>>
       ELSE Push(p)
    /\ UNCHANGED <<pval, nVals, taken, pop_ret, engineVars, uiVars, cbVars, ixVars, mkVars,
                   bnVars, teVars, lsVars>>

\* Condvar::wait may return without a notification.
SpuriousWake(p) ==
    /\ ppc[p] = "wait"
    /\ ppc' = [ppc EXCEPT ![p] = "woken"]
    /\ UNCHANGED <<deque, pval, nVals, pushed, taken, pop_ret, engineVars, uiVars, cbVars, ixVars, mkVars,
                   bnVars, teVars, lsVars>>

\* wait returns with the lock held: still over the limit the producer
\* pushes, otherwise it goes round the loop.
PushWake(p) ==
    /\ ppc[p] = "woken"
    /\ IF Len(deque) > LIMIT
       THEN Push(p)
       ELSE /\ ppc' = [ppc EXCEPT ![p] = "loop"]
            /\ UNCHANGED <<deque, pushed>>
    /\ UNCHANGED <<pval, nVals, taken, pop_ret, engineVars, uiVars, cbVars, ixVars, mkVars,
                   bnVars, teVars, lsVars>>

\* Fifo::pop_front: the front value or None, then notify_one, which wakes
\* one of the waiting producers.
PopFront ==
    /\ IF deque = <<>>
       THEN /\ pop_ret' = <<>>
            /\ UNCHANGED <<deque, taken>>
       ELSE /\ pop_ret' = <<Head(deque)>>
            /\ deque' = Tail(deque)
            /\ taken' = Append(taken, Head(deque))
    /\ IF \E w \in Producers : ppc[w] = "wait"
       THEN \E w \in Producers :
              /\ ppc[w] = "wait"
              /\ ppc' = [ppc EXCEPT ![w] = "woken"]
       ELSE UNCHANGED ppc
    /\ UNCHANGED <<pval, nVals, pushed, engineVars, uiVars, cbVars, ixVars, mkVars,
                   bnVars, teVars, lsVars>>

FqNext ==
    \/ \E p \in Producers : PushCall(p)
    \/ \E p \in Producers : PushLock(p)
    \/ \E p \in Producers : SpuriousWake(p)
    \/ \E p \in Producers : PushWake(p)
    \/ PopFront

FqSpec == Init /\ [][FqNext]_vars

\* ---------------------------------------------------------------- listener
\* Number of events sent on the control channel in one run.
MaxCtl == 4

\* What the owner of shutdown_sender sends: the two notifications, the
\* shutdown event, and one of the other events of MediaKeyEvent.
ControlEvents == {"Playing", "Paused", "Shutdown", "Next"}

\* shutdown_sender.send(e); the receiver lives until setup_mpris returns.
SendControl ==
    /\ Len(ctl_sent) < MaxCtl
    /\ \E e \in ControlEvents :
        /\ ctl_sent' = Append(ctl_sent, e)
        /\ shutdown_channel' = IF listener # "stopped"
                                THEN Append(shutdown_channel, e)
                                ELSE shutdown_channel
    /\ UNCHANGED <<is_playing, listener, name_owned, applied, engineVars, uiVars, cbVars, ixVars, mkVars, bnVars,
                   teVars, fqVars>>

\* A listener whose loop takes Shutdown for one of the other events.
ListenerPoll_NoBreak ==
    /\ listener = "loop"
    /\ IF shutdown_channel = <<>>
       THEN UNCHANGED <<shutdown_channel, is_playing, listener, applied>>
       ELSE /\ shutdown_channel' = Tail(shutdown_channel)
            /\ LET e == Head(shutdown_channel) IN
               /\ listener' = listener
               /\ is_playing' = IF e = "Playing" THEN TRUE
                                 ELSE IF e = "Paused" THEN FALSE
                                 ELSE is_playing
               /\ applied' = IF e \in {"Playing", "Paused"}
                              THEN Append(applied, e) ELSE applied
    /\ UNCHANGED <<name_owned, ctl_sent, engineVars, uiVars, cbVars, ixVars, mkVars, bnVars,
                   teVars, fqVars>>

\* One turn of the listener's loop: try_recv and its arms; on an empty
\* channel the listener sleeps 100 ms and tries again.
ListenerPoll ==
    /\ listener = "loop"
    /\ IF shutdown_channel = <<>>
       THEN UNCHANGED <<shutdown_channel, is_playing, listener, applied>>
       ELSE /\ shutdown_channel' = Tail(shutdown_channel)
            /\ LET e == Head(shutdown_channel) IN
               /\ listener' = IF e = "Shutdown" THEN "release" ELSE listener
               /\ is_playing' = IF e = "Playing" THEN TRUE
                                 ELSE IF e = "Paused" THEN FALSE
                                 ELSE is_playing
               /\ applied' = IF e \in {"Playing", "Paused"}
                              THEN Append(applied, e) ELSE applied
    /\ UNCHANGED <<name_owned, ctl_sent, engineVars, uiVars, cbVars, ixVars, mkVars, bnVars,
                   teVars, fqVars>>

\* connection.release_name(service_name), then setup_mpris returns and the
\* receiver is dropped with what the channel held.
ReleaseName ==
    /\ listener = "release"
    /\ listener' = "stopped"
    /\ name_owned' = FALSE
    /\ shutdown_channel' = <<>>
    /\ UNCHANGED <<is_playing, ctl_sent, applied, engineVars, uiVars, cbVars, ixVars, mkVars, bnVars,
                   teVars, fqVars>>

LsNext ==
    \/ SendControl
    \/ ListenerPoll
    \/ ReleaseName

LsSpec == Init /\ [][LsNext]_vars

\* The listener thread keeps running.
LsFairSpec == LsSpec /\ WF_vars(ListenerPoll) /\ WF_vars(ReleaseName)

\* ------------------------------------------------------------------ claims
\* The step of the engine that runs the command at the head of the channel.
RanCmd == pc = "drain" /\ cmdq # <<>> /\ cmdq' = Tail(cmdq)

HasKey(evs, key) == \E i \in 1..Len(evs) : evs[i].key = key

\* C1: once a quit command is among those the engine has run, the engine
\* leaves its loop at the next loop test, whatever was drained with it; it
\* publishes ("quit", 1) as its last event when it terminates, and never
\* publishes it nor terminates when no quit was sent.
C1_QuitTerminates ==
    /\ (quitRan /\ pc = "while") => player.play_state = "Quitting"
    /\ pc = "done" => (quitRan /\ out = <<Ev("quit", Number(1))>>)
    /\ quitCtx = "none" => (pc # "done" /\ ~HasKey(out, "quit"))

\* C2: when quit is sent to a stopped engine with no song loaded that has run
\* every command sent before (a fresh engine, or one whose failing next_song
\* has produced its error event) and nothing is sent after it, the first info
\* event published after that send has key "quit".
C2_QuitIsNextEvent == quitCtx = "idle" => afterQuit \in {"", "quit"}

\* C3: a command that returns Err makes the engine publish exactly one
\* ("error", Error(desc)) event, leaves play_state as it was, and leaves the
\* engine running in its command loop with the rest of the queue.
C3_ErrorPerFailure ==
    /\ [](err # "" => (out = <<Ev("error", Error(err))>> /\ pc = "drain"))
    /\ [][(RanCmd /\ err' # "") =>
            (player'.play_state = player.play_state /\ cmdq' = Tail(cmdq))]_vars

C3_Witness == err # "" /\ cmdq # <<>> /\ player.play_state = "Playing"

\* C4: for one track exhaustion the engine publishes ("done", 0) once: no
\* second "done" before the next load or seek.
C4_DoneOnce == doneEv <= 1

\* C5: after a load or a seeking command the clock reads 0 until the engine
\* has pulled the next buffer from the codec.
C5_ClockZeroAfterReset == fresh => msec = 0

\* C6: whenever a chip player is loaded and songs > 0, 0 <= song < songs.
C6_SongInRange ==
    (player.chip_player # NoChip /\ player.songs > 0) =>
        (0 <= player.song /\ player.song < player.songs)

\* C7: a load that fails leaves the player (play_state, chip player, song,
\* songs, new_song) and the clock as they were and publishes one error event.
C7_FailedLoadKeepsState ==
    [][(RanCmd /\ Head(cmdq).op = "load" /\ err' # "") =>
         (player' = player /\ msec' = msec /\ out' = <<Ev("error", Error(err'))>>)]_vars

\* C8: next_song and prev_song run with no chip player loaded fail with
\* "No active song", published as an error event, and change nothing.
C8_NoActiveSong ==
    [][(RanCmd /\ Head(cmdq).op \in {"next_song", "prev_song"}
          /\ player.chip_player = NoChip) =>
         (err' = "No active song" /\ out' = <<Ev("error", Error("No active song"))>>
            /\ player' = player /\ msec' = msec)]_vars

\* C9: a load that succeeds, in any play state, leaves the engine Playing
\* with the new chip player, the clock at 0 and new_song set; new_song is
\* pending only until the update_meta of the same loop iteration, which
\* publishes one ("new", 0), then ("song", 0) and ("songs", 1), and resets
\* song to 0 and songs to 1 (before the new codec's own song metadata, if
\* it reports any, is applied); "new" is published by no other step.
C9_LoadStartsPlaying ==
    /\ [](player.new_song # "" => pc \in {"drain", "state", "meta"})
    /\ [][(RanCmd /\ Head(cmdq).op = "load" /\ err' = "") =>
            (/\ player'.play_state = "Playing"
             /\ player'.chip_player # NoChip
             /\ player'.chip_player.path = Head(cmdq).path
             /\ player'.new_song = Head(cmdq).path
             /\ msec' = 0)]_vars
    /\ [][(pc = "meta" /\ pc' # "meta" /\ player.new_song # "") =>
            (/\ Len(out') >= 3
             /\ SubSeq(out', 1, 3) = <<Ev("new", Number(0)), Ev("song", Number(0)),
                                       Ev("songs", Number(1))>>
             /\ ~HasKey(Tail(out'), "new")
             /\ player'.new_song = ""
             /\ (~\E i \in 1..Len(player.chip_player.meta) :
                     player.chip_player.meta[i].key \in {"song", "startSong"})
                  => player'.song = 0
             /\ (~\E i \in 1..Len(player.chip_player.meta) :
                     player.chip_player.meta[i].key = "songs")
                  => player'.songs = 1)]_vars
    /\ [][HasKey(out', "new") => (pc = "meta" /\ player.new_song # "")]_vars

C9_Witness ==
    /\ HasKey(out, "new")
    /\ pc = "work"
    /\ player.play_state = "Playing"
    /\ player.chip_player.path = "song.mp3"
    /\ player.song = 0 /\ player.songs = 1
    /\ msec = 0

\* C10 as stated: while play_state is Paused the engine never calls
\* get_samples.
C10_NoPullWhilePaused == rc # -1 => player.play_state # "Paused"

\* C10 amended: while play_state is Paused the engine calls get_samples only
\* to fast-forward (ff_msec > 0), and then pushes nothing to the ring; with
\* no fast-forward pending it pulls nothing from the codec.
C10_PausedPullsOnlyToFf ==
    [][(player.play_state = "Paused" /\ rc' # -1) =>
         (player.ff_msec > 0 /\ ring' = ring
            /\ player'.play_state = "Paused")]_vars

C10_Witness ==
    /\ player.play_state = "Paused"
    /\ last_state = "Paused"
    /\ player.ff_msec = 0
    /\ player.chip_player # NoChip
    /\ player.chip_player.left > 0
    /\ pc = "while"

\* C11: pause semantics. The ring never holds more than RING_BUFFER_SIZE
\* samples and only grows when the engine is Playing with no fast-forward
\* pending; a Playing engine at its work dispatch with a codec that has
\* samples left, no fast-forward pending and room in the ring pushes to the
\* ring (so after the second play_pause it pushes again), and a callback that
\* finds samples advances the clock; while Paused with no fast-forward
\* pending the clock advances only by a callback that plays buffered samples,
\* so it stands still once the ring is empty.
Paused == player.play_state = "Paused" /\ player.ff_msec = 0

C11_PauseStopsClock ==
    /\ [](ring >= 0 /\ ring <= RING_BUFFER_SIZE)
    /\ [][ring' > ring =>
            (player.play_state = "Playing" /\ player.ff_msec = 0)]_vars
    /\ [][(Paused /\ msec' > msec) => (ring > 0 /\ ring' < ring)]_vars
    /\ [][(/\ pc = "work" /\ pc' # "work"
           /\ player.play_state = "Playing" /\ player.ff_msec = 0
           /\ player.chip_player # NoChip /\ player.chip_player.left > 0
           /\ RING_BUFFER_SIZE - ring > BUFFER_SIZE * 2) => ring' > ring]_vars
    /\ [][(ring' < ring /\ player.play_state = "Playing") => msec' > msec]_vars

\* Paused and reported as such, the buffered samples played out, the clock
\* standing at what they amounted to, the codec with samples left.
C11_Witness ==
    /\ Paused
    /\ last_state = "Paused"
    /\ ring = 0
    /\ msec > 0
    /\ player.chip_player # NoChip
    /\ player.chip_player.left > 0
    /\ pc = "work"

\* C12: the ff(ms) command adds ms to ff_msec and changes nothing else of
\* the player, nor the clock, and returns Ok; the work dispatch of a loop
\* iteration that finds ff_msec > 0 pushes nothing to the ring and publishes
\* no fft event, and so every push and every fft event comes from an
\* iteration with ff_msec = 0.
C12_FfOnlySkips ==
    /\ [][(RanCmd /\ Head(cmdq).op = "ff") =>
            (/\ player' = [player EXCEPT !.ff_msec = @ + Head(cmdq).n]
             /\ msec' = msec /\ ring' = ring /\ err' = "" /\ out' = <<>>)]_vars
    /\ [][(pc = "work" /\ pc' # "work" /\ player.ff_msec > 0) =>
            (ring' = ring /\ ~HasKey(out', "fft"))]_vars
    /\ [][(ring' > ring \/ HasKey(out', "fft")) => player.ff_msec = 0]_vars

\* A fast-forward iteration has pulled a buffer and more is left to skip.
C12_Witness ==
    /\ rc > 0
    /\ player.ff_msec > 0
    /\ player.ff_msec < 30
    /\ pc = "while"

\* C13: a step of the engine publishes an fft event only if it is the work
\* dispatch of a Playing engine with a chip player and no fast-forward
\* pending that pulled a full buffer (rc = BUFFER_SIZE) and pushed it to the
\* ring, and it publishes one such event only; so there are never more fft
\* events than full buffers delivered, and none from a paused, idle or
\* fast-forwarding iteration.
C13_FftOnlyOnFullBuffer ==
    [][HasKey(out', "fft") =>
         (/\ pc = "work" /\ pc' = "while"
          /\ rc' = BUFFER_SIZE
          /\ ring' >= ring + BUFFER_SIZE
          /\ player.play_state = "Playing"
          /\ player.ff_msec = 0
          /\ player.chip_player # NoChip
          /\ Cardinality({i \in 1..Len(out') : out'[i].key = "fft"}) = 1)]_vars

\* A full buffer was pulled and pushed, and its fft event published.
C13_Witness ==
    /\ HasKey(out, "fft")
    /\ rc = BUFFER_SIZE
    /\ ring >= BUFFER_SIZE
    /\ pc = "while"

\* C14: metadata events are published by update_meta only; a batch published
\* while a load is pending opens with that load's ("new", 0) and holds no
\* other "new"; every title published is the title of the song last loaded
\* (the pending new song, or else the chip player in place, whose "new" was
\* published by an earlier batch), never of a song loaded before it; and
\* the chip player is replaced only by a load, which leaves its "new" pending.
MetaKeys == {"title", "composer", "album", "length", "song", "songs", "startSong"}

\* The titles the codec and the mp3 tags give for a file.
Titles(path) ==
    {Text(SongFile(path).title)}
      \cup (IF Extension(path) = "mp3" THEN {Text(Mp3Probe(path).title)} ELSE {})

C14_NewBeforeMetadata ==
    /\ [][\A i \in 1..Len(out') :
            out'[i].key \in MetaKeys =>
              /\ pc = "meta"
              /\ player.new_song # "" =>
                    (out'[1].key = "new" /\ ~HasKey(Tail(out'), "new"))
              /\ player.new_song = "" =>
                    (player.chip_player # NoChip /\ ~HasKey(out', "new"))
              /\ out'[i].key = "title" =>
                    out'[i].val \in Titles(IF player.new_song # ""
                                           THEN player.new_song
                                           ELSE player.chip_player.path)]_vars
    /\ [][player'.chip_player.path \notin {"", player.chip_player.path} =>
            (/\ RanCmd /\ Head(cmdq).op = "load"
             /\ player'.new_song = player'.chip_player.path)]_vars
    /\ [](player.new_song # "" =>
            (/\ pc \in {"drain", "state", "meta"}
             /\ player.chip_player.path \in {"", player.new_song}))

\* The batch of a song loaded over another, whose samples are still in the
\* ring: "new" first, the new song's title after it.
C14_Witness ==
    /\ Len(out) >= 4
    /\ out[1].key = "new"
    /\ out[Len(out)].key = "title"
    /\ out[Len(out)].val = Text(SongFile("game.sid").title)
    /\ player.chip_player.path = "game.sid"
    /\ ring > 0
    /\ pc = "work"

\* C15: every command sent through the command channel is executed, in the
\* order sent and exactly once: the engine runs the head of the channel on
\* the player in place, and it does not end with a command that was sent
\* to it still unexecuted in the channel (no command is skipped).
C15_EveryCmdRunsInOrder ==
    /\ [][RanCmd => player' = Run(Head(cmdq), player).player]_vars
    /\ [][cmdq' # cmdq =>
            \/ RanCmd
            \/ \E c \in Cmds : cmdq' = Append(cmdq, c)]_vars
    /\ [](~Running => cmdq = <<>>)

\* C16: no failure inside a loop iteration terminates the engine: it ends
\* only by leaving its loop on quit, never by an error.
C16_FailuresHandledLocally == pc # "fatal"

ConsumedDone == state_done /\ info' = <<>> /\ (info # <<>> \/ ~state_done')

C18_TrackEndPolicy ==
    [][ConsumedDone =>
         IF current_list # 0 /\ current_song + 1 < current_list
         THEN current_song' = current_song + 1 /\ sent' = <<current_song + 1>>
         ELSE current_song' = current_song /\ sent' = <<>>]_vars

\* C19: after every call of the audio callback, on an output buffer of
\* length L with n samples in the ring, the first min(n, L) slots of the
\* output hold the oldest samples of the ring in order, those samples have
\* left the ring, and every other slot of the output is 0.
C19_UnderrunIsSilence ==
    [][nPopped' # -1 =>
         (/\ nPopped' = Min(Len(faucet), Len(data'))
          /\ SubSeq(data', 1, nPopped') = SubSeq(faucet, 1, nPopped')
          /\ faucet' = SubSeq(faucet, nPopped' + 1, Len(faucet))
          /\ \A i \in (nPopped' + 1)..Len(data') : data'[i] = 0)]_vars

\* C20 as stated: the clock has a single writer, the audio callback: every
\* change of the clock is made by a callback that popped samples.
C20_CallbackIsOnlyWriter ==
    [][msec' # msec => (ring' < ring /\ UNCHANGED <<player, pc, cmdq>>)]_vars

\* C20 amended: the clock is written by the audio callback, which adds the
\* duration of its buffer when it popped samples, and by the engine thread
\* in two places: a command that calls Player::reset (load or a seek) stores
\* 0, and the fast-forward arm adds the duration of the buffer it skipped.
\* Nothing else writes it; the senders of commands (the UI) only read it.
C20_ClockWriters ==
    /\ [][msec' # msec =>
            \/ /\ ring' < ring
               /\ UNCHANGED <<player, pc, cmdq>>
               /\ msec' = msec + BufferMs(BUFFER_SIZE, PLAYBACK_FREQ_HZ)
            \/ /\ RanCmd
               /\ Run(Head(cmdq), player).reset
               /\ msec' = 0
            \/ /\ pc = "work" /\ pc' = "while"
               /\ player.ff_msec > 0
               /\ ring' = ring
               /\ msec' = msec + BufferMs(rc', plugin_freq)]_vars
    /\ [][nSent' # nSent => msec' = msec]_vars

\* The engine has fast-forwarded a paused song whose samples never reached
\* the ring: the clock was advanced and no callback ever popped anything.
C20_Witness ==
    /\ msec > 0
    /\ ring = 0
    /\ rc > 0
    /\ player.play_state = "Paused"
    /\ player.chip_player.left + rc = SongFile(player.chip_player.path).len
    /\ pc = "while"

\* C21: the ("new", 0) of a load is published before the clock reset of that
\* load can be observed: no step leaves the clock reset by a load whose "new"
\* is still to be published.
C21_NewBeforeClockReset ==
    [][(RanCmd /\ Head(cmdq).op = "load" /\ msec' # msec) =>
         player'.new_song = ""]_vars

\* C22: whenever the engine pushes a buffer to the ring the ring has room
\* for all of it, so the ring grows by the length of the resampled buffer,
\* whatever the codec's rate; and when the ring has no more room than two
\* decoder buffers the engine pulls nothing from the codec.
C22_PushNeverDrops ==
    /\ [][(pc = "work" /\ pc' = "while" /\ player.ff_msec = 0 /\ rc' > 0) =>
            ring' - ring = Resample(rc', player.chip_player.hz).n]_vars
    /\ [][(pc = "work" /\ player.ff_msec = 0
           /\ RING_BUFFER_SIZE - ring <= BUFFER_SIZE * 2) =>
            (rc' = -1 /\ ring' <= ring)]_vars

\* C23: the command queue is bounded: never more than 5 commands are
\* pending between the senders and the engine, and a send into a full queue
\* is not accepted.
C23_QueueBounded ==
    /\ [](Len(cmdq) <= 5)
    /\ [][Len(cmdq) = 5 => Len(cmdq') <= 5]_vars

\* The paths of a list of FileInfo.
PathsOf(list) == {list[i].path : i \in 1..Len(list)}

\* The files of a root's tree.
FilesOf(root) ==
    {Tree(root)[i].path : i \in {j \in 1..Len(Tree(root)) : Tree(root)[j].kind = "file"}}

\* A step of the UI that is a search: the worker's steps change its
\* position or its walk, the UI's other calls are not named "search".
SearchStep == ret'.call = "search" /\ ipc' = ipc /\ walk' = walk

C25_FileErrorsSkipped ==
    /\ ipc # "dead"
    /\ (ret.call = "add_path" => ret.ok)
\* C26: the warm list never holds more than 100 entries, every entry is one
\* of the first 100 documents added to the index, and next() hands out the
\* list's head (indexing order, each entry once), None when it is empty.
C26_WarmListIsFirstHundred ==
    /\ Len(indexer.song_list) <= 100
    /\ \A i \in 1..Len(indexer.song_list) :
          \E k \in 1..Min(100, Len(indexer.docs)) :
              indexer.docs[k].path = indexer.song_list[i].path
    /\ \A i, j \in 1..Len(indexer.song_list) :
          i < j => indexer.song_list[i].path[1] < indexer.song_list[j].path[1]
\* C27: get_songs(start, stop) returns the entries of the search result
\* with index in [start, min(stop, len)) and never panics; it returns the
\* empty list when start >= len or start > stop.
C27_GetSongsClamped ==
    [][(ret' # ret /\ ret'.call = "get_songs") =>
        /\ ret'.ok
        /\ ret'.val = SubSeq(indexer.result, ret'.arg[1] + 1,
                             Min(ret'.arg[2], Len(indexer.result)))]_vars
C29_ModlandHeuristic ==
    /\ [](\A k \in 1..Len(indexer.docs) :
            LET d == indexer.docs[k]
                p == d.path
                l == Len(p)
            IN  ~identify_song(p).some =>
                /\ (l >= 3 /\ p[l - 2] \in FORMAT_DIRS) =>
                      /\ get_string(d, "title") = file_stem(p)
                      /\ get_string(d, "composer") = p[l - 1]
                /\ (l >= 4 /\ p[l - 3] \in FORMAT_DIRS /\ p[l - 2] \notin FORMAT_DIRS) =>
                      /\ get_string(d, "composer") = p[l - 2]
                      /\ get_string(d, "game") = p[l - 1])
    /\ [][SearchStep =>
            \A k \in 1..indexer.committed :
                LET d == indexer.docs[k]
                IN  (/\ ~identify_song(d.path).some
                     /\ "composer" \in DOMAIN d
                     /\ {ret'.arg[i] : i \in 1..Len(ret'.arg)} = Tokens(d.composer)
                     /\ \A j \in 1..indexer.committed :
                           j # k => ~Matches(indexer.docs[j], ret'.arg))
                    => PathsOf(indexer'.result) = {d.path}]_vars
\* The event kind the remote surface's interface names for each method.
KeyEventOf ==
    [next |-> "Next", previous |-> "Previous", play_pause |-> "PlayPause",
     play |-> "Play", pause |-> "Pause", stop |-> "Stop"]

\* C30: every remote method call returns Ok, also when the receiver is
\* gone, and while the receiver exists the events taken from the channel
\* followed by those still in it are the invoked methods' events, one per
\* call, in the order of the calls.
C30_OneEventPerCall ==
    /\ method_ret.ok
    /\ receiver =>
          received \o event_channel = [i \in 1..Len(invoked) |-> KeyEventOf[invoked[i]]]

C30_Witness ==
    /\ ~receiver
    /\ invoked = <<"next", "stop">>
    /\ received = <<"Next", "Stop">>
    /\ method_ret = [method |-> "pause", ok |-> TRUE]

\* C33: with a chip player loaded, next_song seeks to song + 1 and resets
\* the clock exactly when song < songs - 1, prev_song seeks to song - 1 and
\* resets the clock exactly when song > 0, and otherwise neither seeks nor
\* touches the clock; both return Ok and leave play_state and ff_msec alone.
C33_SubSongSteps ==
    [][(RanCmd /\ player.chip_player # NoChip
          /\ Head(cmdq).op \in {"next_song", "prev_song"}) =>
        LET to == IF Head(cmdq).op = "next_song" THEN player.song + 1
                  ELSE player.song - 1
            moves == IF Head(cmdq).op = "next_song"
                     THEN player.song < player.songs - 1
                     ELSE player.song > 0
        IN  /\ err' = ""
            /\ player'.play_state = player.play_state
            /\ player'.ff_msec = player.ff_msec
            /\ player'.song = player.song
            /\ IF moves
               THEN /\ msec' = 0
                    /\ player'.chip_player = seek(player.chip_player, to)
               ELSE /\ msec' = msec
                    /\ player'.chip_player = player.chip_player]_vars

C33_Witness ==
    /\ pc = "drain"
    /\ fresh
    /\ msec = 0
    /\ player.chip_player # NoChip
    /\ player.chip_player.path = "game.sid"
    /\ player.song = 0
    /\ player.songs = 2
    /\ player.chip_player.meta # <<>>
    /\ player.chip_player.meta[Len(player.chip_player.meta)] = Meta("song", DecString(1))

C35_FfAdvance ==
    /\ [][(pc = "work" /\ pc' = "while" /\ player.ff_msec > 0) =>
            LET ms == (rc' * 1000) \div (plugin_freq * 2)
            IN  /\ msec' = msec + ms
                /\ player'.ff_msec = IF ms > player.ff_msec THEN 0
                                     ELSE player.ff_msec - ms
                /\ ring' = ring]_vars
    /\ [](player.ff_msec >= 0)
    /\ []((sent # <<>> /\ cmdq = <<>> /\ player.ff_msec = 0) =>
            /\ msec >= sent[1].n
            /\ msec < sent[1].n + (BUFFER_SIZE * 1000) \div (plugin_freq * 2))

C35_Witness ==
    /\ sent # <<>>
    /\ sent[1].n = 10000
    /\ cmdq = <<>>
    /\ player.ff_msec = 0
    /\ msec >= 10000
    /\ rc = BUFFER_SIZE
    /\ pc = "while"

\* C37: fast-forward always finishes, also when the track ends during it:
\* every fast-forward step of the engine brings ff_msec closer to 0, so that
\* ff_msec reaches 0 and the engine returns to playback or sleeping.
C37_FfFinishes ==
    [][(pc = "work" /\ pc' = "while" /\ player.chip_player # NoChip
          /\ player.ff_msec > 0) =>
        player'.ff_msec < player.ff_msec]_vars

\* What a frame does to the banner according to the claim: with no error
\* shown and errors waiting it sets the countdown from the backlog (5 or
\* more: 1 frame, 2 to 4: 10, 1: 50); with an error shown it prints the
\* front error, counts down, and removes that error exactly at 0.
BannerFrame ==
    /\ (show_error = 0 /\ errors # <<>>) =>
          /\ show_error' = CASE Len(errors) >= 5 -> 1
                              [] Len(errors) \in 2..4 -> 10
                              [] OTHER -> 50
          /\ errors' = errors
    /\ show_error > 0 =>
          /\ shown' = Head(errors)
          /\ show_error' = show_error - 1
          /\ errors' = IF show_error' = 0 THEN Tail(errors) ELSE errors

\* Errors wait in arrival order, and an error is shown only while one waits.
BannerOrder ==
    /\ \A i, j \in 1..Len(errors) : i < j => errors[i] < errors[j]
    /\ show_error >= 0
    /\ show_error > 0 => errors # <<>>

\* C32 as stated: every frame treats the banner so, and errors are shown in
\* arrival order; each such frame brings the queue closer to empty.
C32_BannerEveryFrame ==
    /\ [][tick' # tick => BannerFrame]_vars
    /\ []BannerOrder

\* C32, amended: every frame drawn outside the result screen treats the
\* banner so; a frame of the result screen prints no error and leaves the
\* countdown and the queue as they are.
C32_BannerOutsideResults ==
    /\ [][(tick' # tick /\ mode # "ResultScreen") => BannerFrame]_vars
    /\ [][(tick' # tick /\ mode = "ResultScreen") =>
            (shown' = 0 /\ show_error' = show_error /\ errors' = errors)]_vars
    /\ []BannerOrder

C32_Witness ==
    /\ mode = "Main"
    /\ shown = 1
    /\ show_error = 0
    /\ errors = <<2, 3>>
    /\ nErr = 3

\* C38: on a play list of n >= 1 songs, 0 <= current_song < n; next() adds
\* exactly 1 to current_song unless it is n - 1 (then it stays) and prev()
\* takes exactly 1 from it unless it is 0 (then it stays).
C38_NextPrevByOne ==
    /\ [](current_list >= 1 => (0 <= current_song /\ current_song < current_list))
    /\ [][(KeyNext /\ current_list >= 1) =>
            current_song' = IF current_song = current_list - 1 THEN current_song
                            ELSE current_song + 1]_vars
    /\ [][(KeyPrev /\ current_list >= 1) =>
            current_song' = IF current_song = 0 THEN current_song
                            ELSE current_song - 1]_vars

\* C36: each track that runs out makes update_meta call next() once, however
\* many events the engine publishes before it runs the resulting load: next()
\* is never called more often than tracks have run out, and current_song is
\* never further on than that.
C36_OneNextPerTrackEnd ==
    /\ nNext <= nEnds
    /\ current_song <= nEnds

\* C39: pop_front returns the values in the order they were pushed, each
\* once, whichever clone pushed them: the values returned followed by those
\* in the queue are the values pushed, in the order of the pushes; on an
\* empty queue pop_front returns None, and it can always be taken.
C39_FifoOrder ==
    /\ [](taken \o deque = pushed)
    /\ [](\A i, j \in 1..Len(pushed) : i # j => pushed[i] # pushed[j])
    /\ [][(deque = <<>> /\ taken' = taken /\ pop_ret' # pop_ret) => pop_ret' = <<>>]_vars
    /\ [](ENABLED PopFront)

C39_Witness ==
    /\ Len(taken) >= 3
    /\ \E i \in 1..(Len(taken) - 1) : taken[i] > taken[i + 1]
    /\ pop_ret = <<>>
    /\ deque = <<>>

\* C40: the queue never holds more than the limit plus one elements,
\* whatever the number of producers and the interleaving.
C40_FifoBounded == Len(deque) <= LIMIT + 1

\* The events sent before the first Shutdown.
RECURSIVE BeforeShutdown(_)
BeforeShutdown(s) ==
    IF s = <<>> \/ Head(s) = "Shutdown" THEN <<>>
    ELSE <<Head(s)>> \o BeforeShutdown(Tail(s))

Notifications(s) == SelectSeq(s, LAMBDA e : e \in {"Playing", "Paused"})

IsPrefix(s, t) == Len(s) <= Len(t) /\ s = SubSeq(t, 1, Len(s))

\* C31: once Shutdown is in the control channel the listener leaves its
\* loop and releases the name; the notifications applied to is_playing are
\* those sent before the first Shutdown, in the order sent (all of them
\* once the loop is left), is_playing is the last one applied, and nothing
\* is applied after the loop is left.
C31_ShutdownStopsListener ==
    /\ ((\E i \in 1..Len(shutdown_channel) : shutdown_channel[i] = "Shutdown")
          ~> (listener = "stopped" /\ ~name_owned))
    /\ [](IsPrefix(applied, Notifications(BeforeShutdown(ctl_sent))))
    /\ [](listener # "loop" => applied = Notifications(BeforeShutdown(ctl_sent)))
    /\ [](is_playing = (applied # <<>> /\ applied[Len(applied)] = "Playing"))
    /\ [][listener # "loop" => (applied' = applied /\ is_playing' = is_playing)]_vars

C31_Witness ==
    /\ listener = "stopped"
    /\ ~name_owned
    /\ applied = <<"Paused", "Playing">>
    /\ is_playing
    /\ ctl_sent = <<"Paused", "Playing", "Shutdown", "Paused">>
====
